---- MODULE Spec2Model ----
(***************************************************************************)
(* A model of app/services/rate_limiting_service.py: the TokenBucket, the  *)
(* asyncio.Semaphore concurrency gate and the retry loop of                *)
(* RateLimitManager.rate_limited_request, an @asynccontextmanager that is  *)
(* driven by contextlib's __aenter__/__aexit__.                            *)
(*                                                                         *)
(* Time is counted in ticks, TicksPerMinute ticks to the minute.  Bucket   *)
(* token counts are floats in the code; here they are kept exactly, in     *)
(* units of 1/TicksPerMinute token, so that a refill of                    *)
(* elapsed * (capacity / 60) is an integer.                                *)
(***************************************************************************)
EXTENDS Integers, Sequences, FiniteSets, TLC

\* ---------------------------------------------------------------- bounds
MaxLogicalCalls == 3
MaxTime == 1
MaxBucketTime == 3
MaxHeaderTime == 1
MaxUsageTime == 2
MaxWideTime == 1
MaxTrackTime == 1

\* ---------------------------------------------------- configuration used
requests_per_minute == 2
tokens_per_minute == 2
max_concurrent_requests == 1
max_retries == 3

\* The callers: one more than the gate admits at a time.  A caller makes one
\* logical call after another.
Calls == 1..(max_concurrent_requests + 1)

\* One tick is the time in which the request bucket refills one token.
TicksPerMinute == requests_per_minute
Scale == TicksPerMinute

Min(a, b) == IF a <= b THEN a ELSE b

VARIABLES
    now,              \* time.time(), in ticks
    request_bucket,   \* RateLimitManager.request_bucket
    token_bucket,     \* RateLimitManager.token_bucket
    semaphore,        \* RateLimitManager.semaphore._value
    metrics,          \* RateLimitManager.metrics (the four counters)
    rate_limit_info,  \* RateLimitManager._rate_limit_info
    request_times,    \* RateLimitManager._request_times
    token_usage,      \* RateLimitManager._token_usage
    calls,            \* one rate_limited_request context manager per caller
    held,             \* history: permits each call holds
    releases,         \* history: number of semaphore releases so far
    op_log,           \* history: <<start time, estimated_tokens>> of each operation started
    issued,           \* history: number of logical calls made so far
    bucket,           \* a TokenBucket used on its own
    lock,             \* its _lock: 0, or the task that holds it
    tasks,            \* the tasks calling consume and wait_for_tokens on it
    consumed,         \* history: the tokens its successful consumes took
    limit_info,       \* _rate_limit_info of a manager fed headers on its own
    last_update,      \* history: its last update_rate_limits_from_headers call
    last_check,       \* history: its last check_proactive_limits call since then
    reports,          \* history: what get_current_usage returned since the last activity
    backoff,          \* an ExponentialBackoff used on its own
    last_delay,       \* history: its last calculate_delay call
    prev_delay,       \* history: the calculate_delay call before that
    arrivals,         \* history: the callers in the order their calls were made
    pending_requests, \* BatchProcessor._pending_requests
    requests,         \* the requests given to BatchProcessor.add_request
    batches           \* history: the batches formed, in order

manager_vars == <<request_bucket, token_bucket, semaphore, metrics, rate_limit_info,
                  request_times, token_usage, calls, held, releases, op_log, issued>>
bucket_vars == <<bucket, lock, tasks, consumed>>
limit_vars == <<limit_info, last_update, last_check>>
backoff_vars == <<backoff, last_delay, prev_delay>>
batch_vars == <<pending_requests, requests, batches>>
vars == <<now, manager_vars, bucket_vars, limit_vars, reports, backoff_vars, batch_vars,
          arrivals>>

\* ------------------------------------------------------------ TokenBucket
\* TokenBucket.__init__: a full bucket; refill_rate is given per minute here.
TokenBucket(capacity, per_minute, t) ==
    [capacity |-> capacity * Scale, refill |-> per_minute,
     tokens |-> capacity * Scale, last_refill |-> t]

\* The lazy refill of TokenBucket.consume, without the cap at capacity.
RefillUncapped(b, t) ==
    [b EXCEPT !.tokens = b.tokens + (t - b.last_refill) * b.refill,
              !.last_refill = t]

\* A refill that only moves last_refill and adds no tokens.
RefillNothing(b, t) == [b EXCEPT !.last_refill = t]

\* The lazy refill of TokenBucket.consume (lines 152-158).
Refill(b, t) ==
    [b EXCEPT !.tokens = Min(b.capacity, b.tokens + (t - b.last_refill) * b.refill),
              !.last_refill = t]

\* A debit of one token whatever was asked for.
DebitOne(b, n) == [b EXCEPT !.tokens = @ - Scale]

\* The debit of TokenBucket.consume (line 162); n in tokens.
Debit(b, n) == [b EXCEPT !.tokens = @ - n * Scale]

\* A consume that grants whatever is asked while the bucket holds anything at all.
ConsumeOnCredit(b, n, t) ==
    LET r == Refill(b, t) IN
    IF r.tokens > 0
    THEN [bucket |-> Debit(r, n), ok |-> TRUE]
    ELSE [bucket |-> r, ok |-> FALSE]

\* TokenBucket.consume(n) at time t, as one step: the refilled bucket and the result.
Consume(b, n, t) ==
    LET r == Refill(b, t) IN
    IF r.tokens >= n * Scale
    THEN [bucket |-> Debit(r, n), ok |-> TRUE]
    ELSE [bucket |-> r, ok |-> FALSE]

\* -------------------------------------------------- rate limit headers
\* A header value: absent from the map, not an integer, or an integer.
Absent == [kind |-> "absent", value |-> 0]
Malformed == [kind |-> "bad", value |-> 0]
Num(n) == [kind |-> "int", value |-> n]

\* int(headers.get(key, 0)): the value, or ValueError.
ParsesAsInt(v) == v.kind # "bad"
IntOf(v) == IF v.kind = "int" THEN v.value ELSE 0

NoInfo == [tracked |-> FALSE, limit |-> 0, remaining |-> 0]
RateLimitInfo(limit, remaining) == [tracked |-> TRUE, limit |-> limit, remaining |-> remaining]

Headers == [limit_requests : {Absent, Malformed, Num(requests_per_minute)},
            remaining_requests : {Num(0), Num(1)},
            limit_tokens : {Absent, Num(tokens_per_minute)},
            remaining_tokens : {Num(1)}]

\* update_rate_limits_from_headers: the four integers are parsed first; a
\* ValueError from any of them is caught and nothing is stored.
UpdatedInfo(info, h) ==
    IF ~(ParsesAsInt(h.limit_requests) /\ ParsesAsInt(h.remaining_requests)
         /\ ParsesAsInt(h.limit_tokens) /\ ParsesAsInt(h.remaining_tokens))
    THEN info
    ELSE [rpm |-> IF IntOf(h.limit_requests) > 0
                  THEN RateLimitInfo(IntOf(h.limit_requests), IntOf(h.remaining_requests))
                  ELSE info.rpm,
          tpm |-> IF IntOf(h.limit_tokens) > 0
                  THEN RateLimitInfo(IntOf(h.limit_tokens), IntOf(h.remaining_tokens))
                  ELSE info.tpm]

\* A check that also blocks when the tokens remaining equal the estimate.
CheckProactiveLimitsInclusive(info, estimated_tokens) ==
    IF info.rpm.tracked /\ info.rpm.remaining <= 0 THEN "blocked"
    ELSE IF info.tpm.tracked /\ info.tpm.remaining <= estimated_tokens THEN "blocked"
    ELSE IF info.rpm.tracked \/ info.tpm.tracked THEN "type_error"
    ELSE "ok"

\* A check that leaves out a requests entry whose reset time has passed.
CheckProactiveLimitsExpiring(info, estimated_tokens) ==
    IF /\ info.rpm.tracked /\ info.rpm.remaining <= 0
       /\ info.rpm.reset_time.hours * 3600 + info.rpm.reset_time.seconds
            >= now * (60 \div TicksPerMinute)
    THEN "blocked"
    ELSE IF info.tpm.tracked /\ info.tpm.remaining < estimated_tokens THEN "blocked"
    ELSE IF info.rpm.tracked \/ info.tpm.tracked THEN "type_error"
    ELSE "ok"

\* check_proactive_limits: "blocked" is (False, reason), "ok" is (True, None).
\* is_near_limit is a property, so rpm_info.is_near_limit(threshold=0.9)
\* calls the bool the property returned and raises TypeError.
CheckProactiveLimits(info, estimated_tokens) ==
    IF info.rpm.tracked /\ info.rpm.remaining <= 0 THEN "blocked"
    ELSE IF info.tpm.tracked /\ info.tpm.remaining < estimated_tokens THEN "blocked"
    ELSE IF info.rpm.tracked \/ info.tpm.tracked THEN "type_error"
    ELSE "ok"

\* --------------------------------------------------- concurrency gate
\* A semaphore created with one permit too many.
OnePermitTooMany == max_concurrent_requests + 1

\* asyncio.Semaphore(max_concurrent_requests), line 295.
InitialPermits == max_concurrent_requests

\* asyncio.Semaphore.acquire proceeding whatever the counter is.
AcquireAlways(value) == TRUE

\* A gate that stays shut while any call sleeps in backoff.
CanAcquireNoSleeper(value) ==
    value > 0 /\ \A k \in Calls : calls[k].pc # "backoff_sleep"

\* asyncio.Semaphore.acquire proceeds only while the counter is positive.
CanAcquire(value) == value > 0

\* A gate that lets the attempt through when the request bucket refused.
GatePassesIgnoringRequests(can_proceed, request_allowed, tokens_allowed) ==
    can_proceed /\ tokens_allowed

\* Lines 415-432: the attempt reaches the yield only if nothing refused it.
GatePasses(can_proceed, request_allowed, tokens_allowed) ==
    can_proceed /\ request_allowed /\ tokens_allowed

\* ---------------------------------------------- a bucket used on its own
\* TokenBucket(capacity=2, refill_rate=1/60): one token a minute, half a
\* token a tick.
bucket_capacity == 2
bucket_refill_per_minute == 1
Tasks == 1..2
Amounts == {0, 1, bucket_capacity + 1}
\* wait_for_tokens' timeout, in ticks: None, or a number.
Timeouts == {[given |-> FALSE, ticks |-> 0], [given |-> TRUE, ticks |-> 0],
             [given |-> TRUE, ticks |-> 1]}

IdleTask == [pc |-> "idle", op |-> "none", n |-> 0,
             timeout |-> [given |-> FALSE, ticks |-> 0], start_time |-> 0,
             result |-> "none",
             \* history: the successful consumes of the call
             debits |-> 0]

\* ------------------------------------------------------------- state
NoHeaders == [limit_requests |-> [present |-> FALSE, text |-> <<>>],
              remaining_requests |-> [present |-> FALSE, text |-> <<>>],
              limit_tokens |-> [present |-> FALSE, text |-> <<>>],
              remaining_tokens |-> [present |-> FALSE, text |-> <<>>],
              reset_requests |-> [present |-> FALSE, text |-> <<>>],
              reset_tokens |-> [present |-> FALSE, text |-> <<>>]]
NoUpdate == [called |-> FALSE, headers |-> NoHeaders, at |-> 0,
             before |-> [rpm |-> NoInfo, tpm |-> NoInfo], raised |-> FALSE]
NoCheck == [called |-> FALSE, estimated_tokens |-> 0, outcome |-> "none"]

EstimatedTokens == {1, tokens_per_minute + 1}
\* RateLimitError.retry_after: None, or a number of seconds.
RetryAfterValues == {[given |-> FALSE, seconds |-> 0], [given |-> TRUE, seconds |-> 0],
                     [given |-> TRUE, seconds |-> 1]}

NewCall ==
    [pc |-> "idle", attempt |-> 0, estimated_tokens |-> 0,
     can_proceed |-> FALSE, request_allowed |-> FALSE, tokens_allowed |-> FALSE,
     thrown |-> FALSE, suspended |-> FALSE, result |-> "none",
     \* history of this logical call
     op_runs |-> 0, rl_reports |-> 0, refused |-> 0, backoff_sleeps |-> 0,
     retry_after_sleeps |-> 0, retry_after_given |-> 0,
     started_at |-> 0, ended_at |-> 0]

\* ----------------------------------------------------- ExponentialBackoff
\* ExponentialBackoff.__init__, lines 97-107; delays in seconds.
ExponentialBackoff(initial_delay, max_delay, exponential_base, jitter) ==
    [initial_delay |-> initial_delay, max_delay |-> max_delay,
     exponential_base |-> exponential_base, jitter |-> jitter]

\* The defaults of ExponentialBackoff.__init__ (jitter on), as the manager
\* constructs it at line 298.
default_initial_delay == 1
default_max_delay == 60
default_exponential_base == 2

\* --------------------------------------------------------- BatchProcessor
\* The requests that may be given to add_request, and one not given yet.
MaxRequests == 3
BatchRequests == 1..MaxRequests
NoRequest == [state |-> "none", tokens |-> 0, timestamp |-> 0]

\* No calculate_delay call yet.
NoDelay == [called |-> FALSE, attempt |-> 0, delay |-> 0]

\* The state after RateLimitManager(...) with a semaphore of the given permits.
InitWith(permits) ==
    /\ now = 0
    /\ request_bucket = TokenBucket(requests_per_minute, requests_per_minute, 0)
    /\ token_bucket = TokenBucket(tokens_per_minute, tokens_per_minute, 0)
    /\ semaphore = permits
    /\ metrics = [total_requests |-> 0, successful_requests |-> 0,
                  rate_limited_requests |-> 0, retried_requests |-> 0]
    /\ rate_limit_info = [rpm |-> NoInfo, tpm |-> NoInfo]
    /\ request_times = <<>>
    /\ token_usage = <<>>
    /\ calls = [i \in Calls |-> NewCall]
    /\ held = [i \in Calls |-> 0]
    /\ releases = 0
    /\ op_log = <<>>
    /\ issued = 0
    /\ bucket = TokenBucket(bucket_capacity, bucket_refill_per_minute, 0)
    /\ lock = 0
    /\ tasks = [k \in Tasks |-> IdleTask]
    /\ consumed = 0
    /\ limit_info = [rpm |-> NoInfo, tpm |-> NoInfo]
    /\ last_update = NoUpdate
    /\ last_check = NoCheck
    /\ reports = <<>>
    /\ backoff = ExponentialBackoff(default_initial_delay, default_max_delay,
                                    default_exponential_base, TRUE)
    /\ last_delay = NoDelay
    /\ prev_delay = NoDelay
    /\ arrivals = <<>>
    /\ pending_requests = <<>>
    /\ requests = [r \in BatchRequests |-> NoRequest]
    /\ batches = <<>>

Init == InitWith(InitialPermits)

\* Any step of the manager or of the clock: what get_current_usage returned
\* before it is no longer looked at.
Activity == reports' = <<>>

\* Leaving "async with self.semaphore" on any path: Semaphore.release().
Release(i) ==
    /\ semaphore' = semaphore + 1
    /\ held' = [held EXCEPT ![i] = @ - 1]
    /\ releases' = releases + 1

\* The clock advances.
Tick ==
    /\ now < MaxTime
    /\ now' = now + 1
    /\ Activity /\ UNCHANGED <<manager_vars, bucket_vars, limit_vars, backoff_vars, batch_vars, arrivals>>

\* What every step of a call leaves alone unless it says otherwise.
BucketsUnchanged == UNCHANGED <<request_bucket, token_bucket, issued>>
TrackingUnchanged == UNCHANGED <<request_times, token_usage>>
GateUnchanged == UNCHANGED <<semaphore, held, releases>>

\* A caller enters "async with manager.rate_limited_request(estimated_tokens)":
\* attempt = 0, then it waits for the semaphore.
EnterCall(i, estimated_tokens) ==
    /\ calls[i].pc \in {"idle", "done"}
    /\ ~calls[i].suspended
    /\ issued < MaxLogicalCalls
    /\ issued' = issued + 1
    /\ calls' = [calls EXCEPT ![i] = [NewCall EXCEPT !.pc = "acquire",
                                                     !.estimated_tokens = estimated_tokens]]
    /\ Activity /\ UNCHANGED <<bucket_vars, limit_vars, backoff_vars, batch_vars, now, metrics, rate_limit_info, op_log>>
    /\ UNCHANGED <<request_bucket, token_bucket>> /\ TrackingUnchanged /\ GateUnchanged

Enter(i, estimated_tokens) ==
    /\ EnterCall(i, estimated_tokens)
    /\ UNCHANGED arrivals

\* "async with self.semaphore" (line 407): the permit is taken.
Acquire(i) ==
    /\ calls[i].pc = "acquire"
    /\ CanAcquire(semaphore)
    /\ semaphore' = semaphore - 1
    /\ held' = [held EXCEPT ![i] = @ + 1]
    /\ calls' = [calls EXCEPT ![i].pc = "loop"]
    /\ Activity /\ UNCHANGED <<bucket_vars, limit_vars, backoff_vars, batch_vars, arrivals, now, metrics, rate_limit_info, op_log, releases>>
    /\ BucketsUnchanged /\ TrackingUnchanged

\* The head of an attempt that leaves total_requests as it is.
AttemptStartsUncounted(i) ==
    /\ calls[i].pc = "loop"
    /\ calls[i].attempt < max_retries
    /\ metrics' = metrics

\* The head of an attempt (lines 408-410), common to the attempt steps below.
AttemptStarts(i) ==
    /\ calls[i].pc = "loop"
    /\ calls[i].attempt < max_retries
    /\ metrics' = [metrics EXCEPT !.total_requests = @ + 1]

\* A proactive block that goes on to the next attempt without the backoff sleep.
AttemptProactiveBlockNoSleep(i) ==
    /\ AttemptStarts(i)
    /\ CheckProactiveLimits(rate_limit_info, calls[i].estimated_tokens) = "blocked"
    /\ calls' = [calls EXCEPT ![i] = [@ EXCEPT !.attempt = @ + 1, !.can_proceed = FALSE,
                                               !.refused = @ + 1]]
    /\ Activity /\ UNCHANGED <<bucket_vars, limit_vars, backoff_vars, batch_vars, arrivals, now, rate_limit_info, op_log>>
    /\ BucketsUnchanged /\ TrackingUnchanged /\ GateUnchanged

\* Lines 414-418: the proactive check blocks; backoff.sleep(attempt), continue.
AttemptProactiveBlock(i) ==
    /\ AttemptStarts(i)
    /\ CheckProactiveLimits(rate_limit_info, calls[i].estimated_tokens) = "blocked"
    /\ calls' = [calls EXCEPT ![i] = [@ EXCEPT !.attempt = @ + 1, !.can_proceed = FALSE,
                                               !.pc = "backoff_sleep",
                                               !.refused = @ + 1,
                                               !.backoff_sleeps = @ + 1]]
    /\ Activity /\ UNCHANGED <<bucket_vars, limit_vars, backoff_vars, batch_vars, arrivals, now, rate_limit_info, op_log>>
    /\ BucketsUnchanged /\ TrackingUnchanged /\ GateUnchanged

\* Line 414 raising TypeError (is_near_limit): "except Exception: raise" (465-467),
\* the permit is released and the error reaches the caller.
AttemptTypeError(i) ==
    /\ AttemptStarts(i)
    /\ CheckProactiveLimits(rate_limit_info, calls[i].estimated_tokens) = "type_error"
    /\ calls' = [calls EXCEPT ![i] = [@ EXCEPT !.attempt = @ + 1, !.pc = "done",
                                               !.result = "type_error"]]
    /\ Release(i)
    /\ Activity /\ UNCHANGED <<bucket_vars, limit_vars, backoff_vars, batch_vars, arrivals, now, rate_limit_info, op_log>>
    /\ BucketsUnchanged /\ TrackingUnchanged

\* A refusal in which the token bucket is tried only after the request bucket
\* allowed the request.
AttemptBucketRefusedShortCircuit(i) ==
    /\ AttemptStarts(i)
    /\ CheckProactiveLimits(rate_limit_info, calls[i].estimated_tokens) = "ok"
    /\ ~GatePasses(TRUE, Consume(request_bucket, 1, now).ok,
                    Consume(token_bucket, calls[i].estimated_tokens, now).ok)
    /\ request_bucket' = Consume(request_bucket, 1, now).bucket
    /\ token_bucket' = IF Consume(request_bucket, 1, now).ok
                       THEN Consume(token_bucket, calls[i].estimated_tokens, now).bucket
                       ELSE token_bucket
    /\ calls' = [calls EXCEPT ![i] = [@ EXCEPT !.attempt = @ + 1, !.can_proceed = TRUE,
                    !.request_allowed = Consume(request_bucket, 1, now).ok,
                    !.tokens_allowed = Consume(token_bucket, calls[i].estimated_tokens, now).ok,
                    !.pc = "backoff_sleep",
                    !.refused = @ + 1,
                    !.backoff_sleeps = @ + 1]]
    /\ Activity /\ UNCHANGED <<bucket_vars, limit_vars, backoff_vars, batch_vars, arrivals, now, rate_limit_info, op_log, issued>>
    /\ TrackingUnchanged /\ GateUnchanged

\* A refusal that gives back to each bucket what the attempt took from it.
AttemptBucketRefusedRefunding(i) ==
    /\ AttemptStarts(i)
    /\ CheckProactiveLimits(rate_limit_info, calls[i].estimated_tokens) = "ok"
    /\ ~GatePasses(TRUE, Consume(request_bucket, 1, now).ok,
                    Consume(token_bucket, calls[i].estimated_tokens, now).ok)
    /\ request_bucket' = Refill(request_bucket, now)
    /\ token_bucket' = Refill(token_bucket, now)
    /\ calls' = [calls EXCEPT ![i] = [@ EXCEPT !.attempt = @ + 1, !.can_proceed = TRUE,
                    !.request_allowed = Consume(request_bucket, 1, now).ok,
                    !.tokens_allowed = Consume(token_bucket, calls[i].estimated_tokens, now).ok,
                    !.pc = "backoff_sleep",
                    !.refused = @ + 1,
                    !.backoff_sleeps = @ + 1]]
    /\ Activity /\ UNCHANGED <<bucket_vars, limit_vars, backoff_vars, batch_vars, arrivals, now, rate_limit_info, op_log, issued>>
    /\ TrackingUnchanged /\ GateUnchanged

\* Lines 421-432: both buckets are consumed from, then a refusal of either one
\* sends the attempt to backoff.sleep(attempt) and continue.
AttemptBucketRefused(i) ==
    LET rb == Consume(request_bucket, 1, now)
        tb == Consume(token_bucket, calls[i].estimated_tokens, now)
    IN  /\ AttemptStarts(i)
        /\ CheckProactiveLimits(rate_limit_info, calls[i].estimated_tokens) = "ok"
        /\ ~GatePasses(TRUE, rb.ok, tb.ok)
        /\ request_bucket' = rb.bucket
        /\ token_bucket' = tb.bucket
        /\ calls' = [calls EXCEPT ![i] = [@ EXCEPT !.attempt = @ + 1, !.can_proceed = TRUE,
                                                   !.request_allowed = rb.ok,
                                                   !.tokens_allowed = tb.ok,
                                                   !.pc = "backoff_sleep",
                                                   !.refused = @ + 1,
                                                   !.backoff_sleeps = @ + 1]]
        /\ Activity /\ UNCHANGED <<bucket_vars, limit_vars, backoff_vars, batch_vars, arrivals, now, rate_limit_info, op_log, issued>>
        /\ TrackingUnchanged /\ GateUnchanged

\* Lines 435-443: the tracking window after the append and the pruning
\* (entries older than 300 s, then token_usage cut to the same length).
RECURSIVE DropOld(_, _)
DropOld(times, cutoff) ==
    IF times # <<>> /\ Head(times) < cutoff THEN DropOld(Tail(times), cutoff) ELSE times

RECURSIVE DropToLen(_, _)
DropToLen(usage, n) ==
    IF usage # <<>> /\ Len(usage) > n THEN DropToLen(Tail(usage), n) ELSE usage

\* A token_usage that is appended to and never cut.
TrackedUsageUnpruned(usage, times, t, estimated_tokens) == Append(usage, estimated_tokens)

\* A tracking window to which the request's time is not appended.
TrackedTimesNotAppended(times, t) == DropOld(times, t - 5 * TicksPerMinute)

TrackedTimes(times, t) == DropOld(Append(times, t), t - 5 * TicksPerMinute)
TrackedUsage(usage, times, t, estimated_tokens) ==
    DropToLen(Append(usage, estimated_tokens), Len(TrackedTimes(times, t)))

\* The attempt passes the gate and reaches "yield self" (line 445).  Reached from
\* __aenter__ the caller's operation starts.  Reached again after __aexit__ threw
\* the operation's RateLimitError into the generator, the generator has not
\* stopped: contextlib raises RuntimeError("generator didn't stop after athrow()")
\* and the operation is not run again.
AttemptYields(i) ==
    LET rb == Consume(request_bucket, 1, now)
        tb == Consume(token_bucket, calls[i].estimated_tokens, now)
    IN  /\ AttemptStarts(i)
        /\ CheckProactiveLimits(rate_limit_info, calls[i].estimated_tokens) = "ok"
        /\ GatePasses(TRUE, rb.ok, tb.ok)
        /\ request_bucket' = rb.bucket
        /\ token_bucket' = tb.bucket
        /\ request_times' = TrackedTimes(request_times, now)
        /\ token_usage' = TrackedUsage(token_usage, request_times, now,
                                       calls[i].estimated_tokens)
        /\ calls' = [calls EXCEPT ![i] =
                [@ EXCEPT !.attempt = @ + 1, !.can_proceed = TRUE,
                          !.request_allowed = rb.ok, !.tokens_allowed = tb.ok,
                          !.pc = IF calls[i].thrown THEN "didnt_stop" ELSE "in_flight",
                          !.started_at = IF calls[i].thrown THEN @ ELSE now,
                          !.op_runs = IF calls[i].thrown THEN @ ELSE @ + 1]]
        /\ op_log' = IF calls[i].thrown THEN op_log
                     ELSE Append(op_log, <<now, calls[i].estimated_tokens>>)
        /\ Activity /\ UNCHANGED <<bucket_vars, limit_vars, backoff_vars, batch_vars, arrivals, now, rate_limit_info, issued>>
        /\ GateUnchanged

\* Line 470: the loop ends with no attempt left; RateLimitError("Max retries ...
\* exceeded") leaves the semaphore block and reaches the caller.
Exhausted(i) ==
    /\ calls[i].pc = "loop"
    /\ calls[i].attempt >= max_retries
    /\ calls' = [calls EXCEPT ![i] = [@ EXCEPT !.pc = "done", !.result = "max_retries"]]
    /\ Release(i)
    /\ Activity /\ UNCHANGED <<bucket_vars, limit_vars, backoff_vars, batch_vars, arrivals, now, metrics, rate_limit_info, op_log>>
    /\ BucketsUnchanged /\ TrackingUnchanged

\* The end of a refused attempt's sleep counted as a retry.
WakeFromBackoffCounted(i) ==
    /\ calls[i].pc = "backoff_sleep"
    /\ calls' = [calls EXCEPT ![i].pc = "loop"]
    /\ metrics' = [metrics EXCEPT !.retried_requests = @ + 1]
    /\ Activity /\ UNCHANGED <<bucket_vars, limit_vars, backoff_vars, batch_vars, arrivals, now, rate_limit_info, op_log>>
    /\ BucketsUnchanged /\ TrackingUnchanged /\ GateUnchanged

\* backoff.sleep(attempt) of a refused attempt ends; continue.
WakeFromBackoff(i) ==
    /\ calls[i].pc = "backoff_sleep"
    /\ calls' = [calls EXCEPT ![i].pc = "loop"]
    /\ Activity /\ UNCHANGED <<bucket_vars, limit_vars, backoff_vars, batch_vars, arrivals, now, metrics, rate_limit_info, op_log>>
    /\ BucketsUnchanged /\ TrackingUnchanged /\ GateUnchanged

\* The caller's operation ends normally, having fed the response's headers to
\* update_rate_limits_from_headers (llm_client.py, lines 99-106): lines 448-451,
\* then the permit is released.
OperationSucceeds(i, h) ==
    /\ calls[i].pc = "in_flight"
    /\ rate_limit_info' = UpdatedInfo(rate_limit_info, h)
    /\ metrics' = [metrics EXCEPT !.successful_requests = @ + 1]
    /\ calls' = [calls EXCEPT ![i] = [@ EXCEPT !.pc = "done", !.result = "success",
                                               !.ended_at = now]]
    /\ Release(i)
    /\ Activity /\ UNCHANGED <<bucket_vars, limit_vars, backoff_vars, batch_vars, arrivals, now, op_log>>
    /\ BucketsUnchanged /\ TrackingUnchanged

\* A rate-limit report that gives the permit back for the time of the sleep.
OperationRateLimitedReleasing(i, retry_after) ==
    /\ calls[i].pc = "in_flight"
    /\ metrics' = [metrics EXCEPT !.rate_limited_requests = @ + 1]
    /\ calls' = [calls EXCEPT ![i] =
            [@ EXCEPT !.pc = "rate_limited_sleep", !.thrown = TRUE,
                      !.rl_reports = @ + 1,
                      !.retry_after_given = IF retry_after.given THEN @ + 1 ELSE @,
                      !.backoff_sleeps =
                            IF retry_after.given /\ retry_after.seconds # 0 THEN @ ELSE @ + 1,
                      !.retry_after_sleeps =
                            IF retry_after.given /\ retry_after.seconds # 0 THEN @ + 1 ELSE @]]
    /\ Release(i)
    /\ Activity /\ UNCHANGED <<bucket_vars, limit_vars, backoff_vars, batch_vars, arrivals, now, rate_limit_info, op_log>>
    /\ BucketsUnchanged /\ TrackingUnchanged

\* The caller's operation raises RateLimitError: __aexit__ throws it into the
\* generator at the yield; lines 453-460 count it and start the sleep.
OperationRateLimited(i, retry_after) ==
    LET truthy == retry_after.given /\ retry_after.seconds # 0 IN
    /\ calls[i].pc = "in_flight"
    /\ metrics' = [metrics EXCEPT !.rate_limited_requests = @ + 1]
    /\ calls' = [calls EXCEPT ![i] =
            [@ EXCEPT !.pc = "rate_limited_sleep", !.thrown = TRUE,
                      !.rl_reports = @ + 1,
                      !.retry_after_given = IF retry_after.given THEN @ + 1 ELSE @,
                      !.backoff_sleeps = IF truthy THEN @ ELSE @ + 1,
                      !.retry_after_sleeps = IF truthy THEN @ + 1 ELSE @]]
    /\ Activity /\ UNCHANGED <<bucket_vars, limit_vars, backoff_vars, batch_vars, arrivals, now, rate_limit_info, op_log>>
    /\ BucketsUnchanged /\ TrackingUnchanged /\ GateUnchanged

\* The sleep after a rate-limit report ends: lines 462-463, then the loop.
WakeFromRateLimited(i) ==
    /\ calls[i].pc = "rate_limited_sleep"
    /\ metrics' = [metrics EXCEPT !.retried_requests =
                        IF calls[i].attempt < max_retries THEN @ + 1 ELSE @]
    /\ calls' = [calls EXCEPT ![i].pc = "loop"]
    /\ Activity /\ UNCHANGED <<bucket_vars, limit_vars, backoff_vars, batch_vars, arrivals, now, rate_limit_info, op_log>>
    /\ BucketsUnchanged /\ TrackingUnchanged /\ GateUnchanged

\* An operation's failure handled as a rate-limit report is: swallowed, then
\* backoff.sleep(attempt) and another attempt.
OperationFailsRetried(i, h) ==
    /\ calls[i].pc = "in_flight"
    /\ rate_limit_info' = UpdatedInfo(rate_limit_info, h)
    /\ metrics' = [metrics EXCEPT !.rate_limited_requests = @ + 1]
    /\ calls' = [calls EXCEPT ![i] = [@ EXCEPT !.pc = "backoff_sleep", !.result = "error",
                                               !.thrown = TRUE,
                                               !.backoff_sleeps = @ + 1]]
    /\ Activity /\ UNCHANGED <<bucket_vars, limit_vars, backoff_vars, batch_vars, arrivals, now, op_log>>
    /\ BucketsUnchanged /\ TrackingUnchanged /\ GateUnchanged

\* The caller's operation raises any other exception, before or after it fed
\* the response's headers to update_rate_limits_from_headers (llm_client.py,
\* lines 99-106): lines 465-467 re-raise it.
OperationFails(i, h) ==
    /\ calls[i].pc = "in_flight"
    /\ rate_limit_info' = UpdatedInfo(rate_limit_info, h)
    /\ calls' = [calls EXCEPT ![i] = [@ EXCEPT !.pc = "done", !.result = "error",
                                               !.thrown = TRUE]]
    /\ Release(i)
    /\ Activity /\ UNCHANGED <<bucket_vars, limit_vars, backoff_vars, batch_vars, arrivals, now, metrics, op_log>>
    /\ BucketsUnchanged /\ TrackingUnchanged

\* "generator didn't stop after athrow()" on Python 3.12 and later: __aexit__
\* closes the generator before raising, GeneratorExit leaves the semaphore block.
DidntStopClosed(i) ==
    /\ calls[i].pc = "didnt_stop"
    /\ calls' = [calls EXCEPT ![i] = [@ EXCEPT !.pc = "done", !.result = "runtime_error"]]
    /\ Release(i)
    /\ Activity /\ UNCHANGED <<bucket_vars, limit_vars, backoff_vars, batch_vars, arrivals, now, metrics, rate_limit_info, op_log>>
    /\ BucketsUnchanged /\ TrackingUnchanged

\* The same on Python 3.8 to 3.11: __aexit__ raises RuntimeError and leaves the
\* generator suspended at the yield, inside the semaphore block.
DidntStopAbandoned(i) ==
    /\ calls[i].pc = "didnt_stop"
    /\ calls' = [calls EXCEPT ![i] = [@ EXCEPT !.pc = "done", !.result = "runtime_error",
                                               !.suspended = TRUE]]
    /\ Activity /\ UNCHANGED <<bucket_vars, limit_vars, backoff_vars, batch_vars, arrivals, now, metrics, rate_limit_info, op_log>>
    /\ BucketsUnchanged /\ TrackingUnchanged /\ GateUnchanged

\* The abandoned generator is finalized (garbage collection, loop shutdown):
\* aclose() leaves the semaphore block.
Finalized(i) ==
    /\ calls[i].suspended
    /\ calls' = [calls EXCEPT ![i].suspended = FALSE]
    /\ Release(i)
    /\ Activity /\ UNCHANGED <<bucket_vars, limit_vars, backoff_vars, batch_vars, arrivals, now, metrics, rate_limit_info, op_log>>
    /\ BucketsUnchanged /\ TrackingUnchanged

\* The free permits given for the permits in use.
FreePermits(value) == value

\* Line 489: max_concurrent_requests - semaphore._value.
InUse(value) == max_concurrent_requests - value

\* get_current_usage() at time t, lines 472-491: the requests tracked in the
\* last 60 seconds, the tokens tracked with them, and the permits in use.  The
\* two percentages are exact here, the configured limits dividing 100 * count.
get_current_usage(t) ==
    LET last_minute == t - TicksPerMinute
        recent == {k \in 1..Len(request_times) : request_times[k] > last_minute}
        recent_tokens == {k \in 1..Len(token_usage) :
                             k <= Len(request_times) /\ request_times[k] > last_minute}
        tokens_of(S) == LET sum[T \in SUBSET S] ==
                                IF T = {} THEN 0
                                ELSE LET k == CHOOSE x \in T : TRUE
                                     IN  token_usage[k] + sum[T \ {k}]
                        IN  sum[S]
    IN  [requests_last_minute |-> Cardinality(recent),
         tokens_last_minute |-> tokens_of(recent_tokens),
         requests_per_minute_limit |-> requests_per_minute,
         tokens_per_minute_limit |-> tokens_per_minute,
         request_usage_percentage |-> (Cardinality(recent) * 100) \div requests_per_minute,
         token_usage_percentage |-> (tokens_of(recent_tokens) * 100) \div tokens_per_minute,
         concurrent_requests |-> InUse(semaphore),
         metrics |-> metrics]

\* A get_current_usage that also takes a permit.
GetCurrentUsageTakingPermit ==
    /\ Len(reports) < 2
    /\ semaphore > 0
    /\ reports' = Append(reports, get_current_usage(now))
    /\ semaphore' = semaphore - 1
    /\ UNCHANGED <<now, bucket_vars, limit_vars, backoff_vars, batch_vars, arrivals, request_bucket, token_bucket, metrics,
                   rate_limit_info, request_times, token_usage, calls, held, releases,
                   op_log, issued>>

\* Somebody calls get_current_usage(): it returns its report and writes nothing.
GetCurrentUsage ==
    /\ Len(reports) < 2
    /\ reports' = Append(reports, get_current_usage(now))
    /\ UNCHANGED <<now, manager_vars, bucket_vars, limit_vars, backoff_vars, batch_vars, arrivals>>

Next ==
    \/ Tick
    \/ \E i \in Calls, e \in EstimatedTokens : Enter(i, e)
    \/ \E i \in Calls : Acquire(i)
    \/ \E i \in Calls : AttemptProactiveBlock(i)
    \/ \E i \in Calls : AttemptTypeError(i)
    \/ \E i \in Calls : AttemptBucketRefused(i)
    \/ \E i \in Calls : AttemptYields(i)
    \/ \E i \in Calls : Exhausted(i)
    \/ \E i \in Calls : WakeFromBackoff(i)
    \/ \E i \in Calls, h \in Headers : OperationSucceeds(i, h)
    \/ \E i \in Calls, r \in RetryAfterValues : OperationRateLimited(i, r)
    \/ \E i \in Calls : WakeFromRateLimited(i)
    \/ \E i \in Calls, h \in Headers : OperationFails(i, h)
    \/ \E i \in Calls : DidntStopClosed(i)
    \/ \E i \in Calls : DidntStopAbandoned(i)
    \/ \E i \in Calls : Finalized(i)

Spec == Init /\ [][Next]_vars

\* The steps a call takes by itself between its attempts: the event loop runs a
\* task that is ready, and asyncio.sleep returns.
LoopStep(i) ==
    \/ AttemptProactiveBlock(i)
    \/ AttemptTypeError(i)
    \/ AttemptBucketRefused(i)
    \/ AttemptYields(i)
    \/ Exhausted(i)
    \/ WakeFromBackoff(i)

\* Every step of one caller.
CallerStep(i) ==
    \/ \E e \in EstimatedTokens : Enter(i, e)
    \/ Acquire(i)
    \/ AttemptProactiveBlock(i)
    \/ AttemptTypeError(i)
    \/ AttemptBucketRefused(i)
    \/ AttemptYields(i)
    \/ Exhausted(i)
    \/ WakeFromBackoff(i)
    \/ \E h \in Headers : OperationSucceeds(i, h)
    \/ \E r \in RetryAfterValues : OperationRateLimited(i, r)
    \/ WakeFromRateLimited(i)
    \/ \E h \in Headers : OperationFails(i, h)
    \/ DidntStopClosed(i)
    \/ DidntStopAbandoned(i)
    \/ Finalized(i)

\* ------------------------------------------- a manager with two permits
\* RateLimitManager(max_concurrent_requests=2): both callers can be inside the
\* semaphore together.  The order in which the calls were made is recorded.
wide_max_concurrent_requests == 2

WideInit == InitWith(wide_max_concurrent_requests)

\* The clock advances (for the manager with two permits).
WideTick ==
    /\ now < MaxWideTime
    /\ now' = now + 1
    /\ Activity /\ UNCHANGED <<manager_vars, bucket_vars, limit_vars, backoff_vars, batch_vars, arrivals>>

\* A caller enters rate_limited_request, each caller once; arrivals records
\* the order.
Arrive(i, estimated_tokens) ==
    /\ \A a \in 1..Len(arrivals) : arrivals[a] # i
    /\ EnterCall(i, estimated_tokens)
    /\ arrivals' = Append(arrivals, i)

\* Every step of one caller after it has entered.
AfterEnter(i) ==
    \/ Acquire(i)
    \/ AttemptProactiveBlock(i)
    \/ AttemptTypeError(i)
    \/ AttemptBucketRefused(i)
    \/ AttemptYields(i)
    \/ Exhausted(i)
    \/ WakeFromBackoff(i)
    \/ \E h \in Headers : OperationSucceeds(i, h)
    \/ \E r \in RetryAfterValues : OperationRateLimited(i, r)
    \/ WakeFromRateLimited(i)
    \/ \E h \in Headers : OperationFails(i, h)
    \/ DidntStopClosed(i)
    \/ DidntStopAbandoned(i)
    \/ Finalized(i)

WideNext ==
    \/ WideTick
    \/ \E i \in Calls, e \in EstimatedTokens : Arrive(i, e)
    \/ \E i \in Calls : AfterEnter(i)

WideSpec == WideInit /\ [][WideNext]_vars

\* One caller making one logical call after another (SoleCaller), its loop steps taken
\* whenever they can be.
SoleCaller == 1
FairNext == Tick \/ CallerStep(SoleCaller)
FairSpec == Init /\ [][FairNext]_vars /\ WF_vars(LoopStep(SoleCaller))

\* ------------------------------- one caller, a longer clock, and the reports
\* The clock advances (for the manager whose usage is read).
UsageTick ==
    /\ now < MaxUsageTime
    /\ now' = now + 1
    /\ Activity /\ UNCHANGED <<manager_vars, bucket_vars, limit_vars, backoff_vars, batch_vars, arrivals>>

UsageNext ==
    \/ UsageTick
    \/ GetCurrentUsage
    \/ CallerStep(SoleCaller)

UsageSpec == Init /\ [][UsageNext]_vars

\* ---------------------------- one caller and a clock that passes 5 minutes
\* The clock advances by a tick (for the manager whose tracking is pruned).
TrackTick ==
    /\ now < MaxTrackTime
    /\ now' = now + 1
    /\ Activity /\ UNCHANGED <<manager_vars, bucket_vars, limit_vars, backoff_vars, batch_vars, arrivals>>

\* Nothing happens for 300 seconds, the age at which lines 439-441 drop an
\* entry.
TrackIdle ==
    /\ now <= MaxTrackTime
    /\ now' = now + 5 * TicksPerMinute
    /\ Activity /\ UNCHANGED <<manager_vars, bucket_vars, limit_vars, backoff_vars, batch_vars, arrivals>>

TrackNext ==
    \/ TrackTick
    \/ TrackIdle
    \/ CallerStep(SoleCaller)

TrackSpec == Init /\ [][TrackNext]_vars

\* ------------------------------------- TokenBucket under concurrent tasks
\* The clock advances (for the bucket used on its own).
BucketTick ==
    /\ now < MaxBucketTime
    /\ now' = now + 1
    /\ UNCHANGED <<manager_vars, bucket_vars, limit_vars, backoff_vars, batch_vars, arrivals, reports>>

\* A lock taken whoever holds it.
LockAlways(l) == TRUE

\* asyncio.Lock.acquire proceeds only while the lock is free.
CanLock(l) == l = 0

\* A task calls consume(n).
CallConsume(k, n) ==
    /\ tasks[k].pc = "idle"
    /\ tasks' = [tasks EXCEPT ![k] = [IdleTask EXCEPT !.pc = "lock", !.op = "consume",
                                                      !.n = n]]
    /\ UNCHANGED <<now, manager_vars, limit_vars, backoff_vars, batch_vars, arrivals, reports, bucket, lock, consumed>>

\* A task calls wait_for_tokens(n, timeout): start_time = time.time() (line 168).
CallWaitForTokens(k, n, timeout) ==
    /\ tasks[k].pc = "idle"
    /\ tasks' = [tasks EXCEPT ![k] = [IdleTask EXCEPT !.pc = "lock", !.op = "wait",
                                                      !.n = n, !.timeout = timeout,
                                                      !.start_time = now]]
    /\ UNCHANGED <<now, manager_vars, limit_vars, backoff_vars, batch_vars, arrivals, reports, bucket, lock, consumed>>

\* What a task does once its consume has returned ok: consume returns to its
\* caller; wait_for_tokens returns True, or False on timeout (line 174), or
\* goes on to compute its wait (lines 178-180).
Returned(t, value) == [IdleTask EXCEPT !.op = t.op, !.result = value, !.debits = t.debits]

\* A wait_for_tokens that returns False as soon as a consume is refused.
AfterConsumeGivingUp(t, ok, time) == Returned(t, IF ok THEN "true" ELSE "false")

AfterConsume(t, ok, time) ==
    IF t.op = "consume" \/ ok
    THEN Returned(t, IF ok THEN "true" ELSE "false")
    ELSE IF t.timeout.given /\ t.timeout.ticks # 0
            /\ time - t.start_time >= t.timeout.ticks
    THEN Returned(t, "false")
    ELSE [t EXCEPT !.pc = "wait_time"]

\* consume, lines 151-161 and 164: the lock is taken, the bucket refilled and
\* compared with n; with too few tokens the lock is released and False returned.
ConsumeRefused(k) ==
    /\ tasks[k].pc = "lock"
    /\ CanLock(lock)
    /\ Refill(bucket, now).tokens < tasks[k].n * Scale
    /\ bucket' = Refill(bucket, now)
    /\ tasks' = [tasks EXCEPT ![k] = AfterConsume(@, FALSE, now)]
    /\ UNCHANGED <<now, manager_vars, limit_vars, backoff_vars, batch_vars, arrivals, reports, lock, consumed>>

\* consume, lines 151-161: the same with enough tokens; the debit is next.
ConsumeAllowed(k) ==
    /\ tasks[k].pc = "lock"
    /\ CanLock(lock)
    /\ Refill(bucket, now).tokens >= tasks[k].n * Scale
    /\ bucket' = Refill(bucket, now)
    /\ lock' = k
    /\ tasks' = [tasks EXCEPT ![k].pc = "debit"]
    /\ UNCHANGED <<now, manager_vars, limit_vars, backoff_vars, batch_vars, arrivals, reports, consumed>>

\* consume, lines 162-163: the debit; the lock is released, True.
ConsumeDebit(k) ==
    /\ tasks[k].pc = "debit"
    /\ bucket' = Debit(bucket, tasks[k].n)
    /\ consumed' = consumed + tasks[k].n
    /\ lock' = 0
    /\ tasks' = [tasks EXCEPT ![k] = AfterConsume([@ EXCEPT !.debits = @ + 1], TRUE, now)]
    /\ UNCHANGED <<now, manager_vars, limit_vars, backoff_vars, batch_vars, arrivals, reports>>

\* wait_for_tokens, lines 178-182: under the lock the wait is computed from the
\* tokens missing, then the task sleeps.
WaitCompute(k) ==
    /\ tasks[k].pc = "wait_time"
    /\ CanLock(lock)
    /\ tasks' = [tasks EXCEPT ![k].pc = "sleep"]
    /\ UNCHANGED <<now, manager_vars, limit_vars, backoff_vars, batch_vars, arrivals, reports, bucket, lock, consumed>>

\* wait_for_tokens: the sleep ends and the loop calls consume again.
WaitWakes(k) ==
    /\ tasks[k].pc = "sleep"
    /\ tasks' = [tasks EXCEPT ![k].pc = "lock"]
    /\ UNCHANGED <<now, manager_vars, limit_vars, backoff_vars, batch_vars, arrivals, reports, bucket, lock, consumed>>

BucketNext ==
    \/ BucketTick
    \/ \E k \in Tasks, n \in Amounts : CallConsume(k, n)
    \/ \E k \in Tasks, n \in Amounts, t \in Timeouts : CallWaitForTokens(k, n, t)
    \/ \E k \in Tasks : ConsumeRefused(k)
    \/ \E k \in Tasks : ConsumeAllowed(k)
    \/ \E k \in Tasks : ConsumeDebit(k)
    \/ \E k \in Tasks : WaitCompute(k)
    \/ \E k \in Tasks : WaitWakes(k)

BucketSpec == Init /\ [][BucketNext]_vars

\* ------------------------------ buckets of any capacity and refill rate
\* TokenBucket(capacity, refill_rate) for the capacities and the rates (per
\* minute) tried, used by one task.
Capacities == 1..3
RatesPerMinute == {1, 2}
SoleTask == 1

\* TokenBucket.__init__, lines 142-147: a bucket is made before any time has
\* passed, and takes the place of the one used so far.
NewTokenBucket(capacity, per_minute) ==
    /\ now = 0
    /\ lock = 0
    /\ \A k \in Tasks : tasks[k].pc = "idle"
    /\ bucket' = TokenBucket(capacity, per_minute, now)
    /\ tasks' = [k \in Tasks |-> IdleTask]
    /\ consumed' = 0
    /\ UNCHANGED <<now, manager_vars, limit_vars, backoff_vars, batch_vars, arrivals, reports, lock>>

\* Every step of one task.
TaskStep(k) ==
    \/ \E n \in Amounts : CallConsume(k, n)
    \/ \E n \in Amounts, t \in Timeouts : CallWaitForTokens(k, n, t)
    \/ ConsumeRefused(k)
    \/ ConsumeAllowed(k)
    \/ ConsumeDebit(k)
    \/ WaitCompute(k)
    \/ WaitWakes(k)

AnyBucketNext ==
    \/ BucketTick
    \/ \E c \in Capacities, r \in RatesPerMinute : NewTokenBucket(c, r)
    \/ TaskStep(SoleTask)

AnyBucketSpec == Init /\ [][AnyBucketNext]_vars

\* The steps a task takes by itself once it has been called: the event loop
\* runs it whenever it can go on.
TaskRuns(k) ==
    \/ ConsumeRefused(k)
    \/ ConsumeAllowed(k)
    \/ ConsumeDebit(k)
    \/ WaitCompute(k)
    \/ WaitWakes(k)

\* One task on a bucket of its own: the task goes on whenever it can, and the
\* clock advances as far as it is followed.
FairBucketSpec ==
    /\ Init /\ [][AnyBucketNext]_vars
    /\ WF_vars(TaskRuns(SoleTask))
    /\ WF_vars(BucketTick)

\* ------------------------------------------- header values as text
\* A header value is a string, or is missing from the map.  A string is a
\* sequence of characters; the characters used are the digits, some letters,
\* and " ", ".", "-", "+".
DigitChars == <<"0", "1", "2", "3", "4", "5", "6", "7", "8", "9">>
IsDigit(c) == \E k \in 1..10 : DigitChars[k] = c
DigitValue(c) == (CHOOSE k \in 1..10 : DigitChars[k] = c) - 1
\* [a-zA-Z], for the letters used.
IsLetter(c) == c \in {"s", "m", "h", "S", "a", "b", "c", "e", "x"}

Missing == [present |-> FALSE, text |-> <<>>]
Text(s) == [present |-> TRUE, text |-> s]

\* str.strip(): leading and trailing blanks removed.
RECURSIVE StripLeft(_)
StripLeft(s) == IF s # <<>> /\ Head(s) = " " THEN StripLeft(Tail(s)) ELSE s
RECURSIVE StripRight(_)
StripRight(s) ==
    IF s # <<>> /\ s[Len(s)] = " " THEN StripRight(SubSeq(s, 1, Len(s) - 1)) ELSE s
Strip(s) == StripRight(StripLeft(s))

\* The value of a run of digits.
RECURSIVE DigitsValue(_)
DigitsValue(s) ==
    IF s = <<>> THEN 0
    ELSE DigitsValue(SubSeq(s, 1, Len(s) - 1)) * 10 + DigitValue(s[Len(s)])

\* int(text): blanks stripped, an optional sign, then one digit or more;
\* anything else is ValueError (ok = FALSE).
ParseInt(s) ==
    LET t == Strip(s)
        signed == t # <<>> /\ Head(t) \in {"+", "-"}
        digits == IF signed THEN Tail(t) ELSE t
    IN  IF digits # <<>> /\ \A k \in 1..Len(digits) : IsDigit(digits[k])
        THEN [ok |-> TRUE,
              value |-> IF signed /\ Head(t) = "-" THEN 0 - DigitsValue(digits)
                        ELSE DigitsValue(digits)]
        ELSE [ok |-> FALSE, value |-> 0]

\* int(headers.get(key, 0)), lines 315-320: int(0) when the key is missing.
HeaderInt(v) == IF v.present THEN ParseInt(v.text) ELSE [ok |-> TRUE, value |-> 0]

\* A number of seconds kept as whole hours and the seconds left over (the
\* code's float holds these integers exactly).
Duration(hours, seconds) ==
    [hours |-> hours + seconds \div 3600, seconds |-> seconds % 3600]
Plus(d, e) == Duration(d.hours + e.hours, d.seconds + e.seconds)

\* Every match counted as seconds, whatever its unit.
MatchSecondsIgnoringUnit(value, unit) == Duration(0, value)

\* Lines 336-342: what one (digits)(unit) match adds; a unit other than s, m, h
\* adds nothing ('sec', 'min', 'hour' are never matched by a one-letter group).
MatchSeconds(value, unit) ==
    IF unit = "s" THEN Duration(0, value)
    ELSE IF unit = "m" THEN Duration(value \div 60, (value % 60) * 60)
    ELSE IF unit = "h" THEN Duration(value, 0)
    ELSE Duration(0, 0)

\* re.findall(r'(\d+)([a-zA-Z])', s) summed as it is scanned: a run of digits
\* matches when a letter follows it directly.  run is the value of the digits
\* read so far, in_run whether there are any.
RECURSIVE ScanDuration(_, _, _, _)
ScanDuration(s, run, in_run, total) ==
    IF s = <<>> THEN total
    ELSE IF IsDigit(Head(s))
    THEN ScanDuration(Tail(s), run * 10 + DigitValue(Head(s)), TRUE, total)
    ELSE IF IsLetter(Head(s)) /\ in_run
    THEN ScanDuration(Tail(s), 0, FALSE, Plus(total, MatchSeconds(run, Head(s))))
    ELSE ScanDuration(Tail(s), 0, FALSE, total)

\* parse_duration, lines 324-344.
parse_duration(duration_str) ==
    IF duration_str = <<>> THEN Duration(0, 0)
    ELSE ScanDuration(Strip(duration_str), 0, FALSE, Duration(0, 0))

\* headers.get('x-ratelimit-reset-...', '0s'), lines 317 and 321.
ResetText(v) == IF v.present THEN v.text ELSE <<"0", "s">>

\* datetime.max - datetime.min is one microsecond short of 3652059 days: a
\* timedelta of that many hours or more added to any datetime raises
\* OverflowError ("date value out of range").
DatetimeSpanHours == 87649416
SecondsPerTick == 60 \div TicksPerMinute

\* now + timedelta(seconds=d), lines 354 and 364: out of datetime's range or
\* not.  The durations drawn below are either far above the span or a few
\* hours at most, for which the sum is in range.
Overflows(d) == d.hours >= DatetimeSpanHours

\* RateLimitInfo(limit, remaining, reset_time, reset_duration), lines 351-356;
\* reset_time counted from the origin of the clock.
RateLimitInfoAt(limit, remaining, t, d) ==
    [tracked |-> TRUE, limit |-> limit, remaining |-> remaining,
     reset_time |-> Plus(Duration(0, t * SecondsPerTick), d), reset_duration |-> d]

\* An update that stores an entry for every dimension whose limit parses,
\* whatever its value.
UpdateStoringAnyLimit(info, h, t) ==
    LET rpm_limit == HeaderInt(h.limit_requests)
        rpm_remaining == HeaderInt(h.remaining_requests)
        tpm_limit == HeaderInt(h.limit_tokens)
        tpm_remaining == HeaderInt(h.remaining_tokens)
        rpm_reset_seconds == parse_duration(ResetText(h.reset_requests))
        tpm_reset_seconds == parse_duration(ResetText(h.reset_tokens))
        with_rpm == [info EXCEPT !.rpm = RateLimitInfoAt(rpm_limit.value,
                                            rpm_remaining.value, t, rpm_reset_seconds)]
        with_tpm == [with_rpm EXCEPT !.tpm = RateLimitInfoAt(tpm_limit.value,
                                            tpm_remaining.value, t, tpm_reset_seconds)]
    IN  IF ~(rpm_limit.ok /\ rpm_remaining.ok /\ tpm_limit.ok /\ tpm_remaining.ok)
        THEN [info |-> info, raised |-> FALSE]
        ELSE IF Overflows(rpm_reset_seconds)
        THEN [info |-> info, raised |-> TRUE]
        ELSE IF Overflows(tpm_reset_seconds)
        THEN [info |-> with_rpm, raised |-> TRUE]
        ELSE [info |-> with_tpm, raised |-> FALSE]

\* update_rate_limits_from_headers(h) at time t on the tracked info: the info
\* stored when it ends, and whether it ended by raising.  The four integers
\* are parsed first (a ValueError is caught, line 368); then the requests entry
\* is stored, then the tokens entry, each after its now + timedelta.
update_rate_limits_from_headers(info, h, t) ==
    LET rpm_limit == HeaderInt(h.limit_requests)
        rpm_remaining == HeaderInt(h.remaining_requests)
        tpm_limit == HeaderInt(h.limit_tokens)
        tpm_remaining == HeaderInt(h.remaining_tokens)
        rpm_reset_seconds == parse_duration(ResetText(h.reset_requests))
        tpm_reset_seconds == parse_duration(ResetText(h.reset_tokens))
        with_rpm == IF rpm_limit.value > 0
                    THEN [info EXCEPT !.rpm = RateLimitInfoAt(rpm_limit.value,
                                            rpm_remaining.value, t, rpm_reset_seconds)]
                    ELSE info
        with_tpm == IF tpm_limit.value > 0
                    THEN [with_rpm EXCEPT !.tpm = RateLimitInfoAt(tpm_limit.value,
                                            tpm_remaining.value, t, tpm_reset_seconds)]
                    ELSE with_rpm
    IN  IF ~(rpm_limit.ok /\ rpm_remaining.ok /\ tpm_limit.ok /\ tpm_remaining.ok)
        THEN [info |-> info, raised |-> FALSE]
        ELSE IF rpm_limit.value > 0 /\ Overflows(rpm_reset_seconds)
        THEN [info |-> info, raised |-> TRUE]
        ELSE IF tpm_limit.value > 0 /\ Overflows(tpm_reset_seconds)
        THEN [info |-> with_rpm, raised |-> TRUE]
        ELSE [info |-> with_tpm, raised |-> FALSE]

\* ------------------------------------ a manager fed headers on its own
\* The headers of a response: requests and tokens entries that are missing,
\* well formed, not integers, or with a reset beyond datetime's range.
RequestHeaders ==
    {<<Missing, Missing, Missing>>,
     <<Text(<<"6", "0">>), Text(<<"5", "0">>), Text(<<"6", "m", "0", "s">>)>>,
     <<Text(<<"6", "0">>), Text(<<"0">>), Text(<<"1", "0", "s">>)>>,
     <<Text(<<"6", "x">>), Text(<<"5", "0">>), Text(<<"1", "0", "s">>)>>,
     <<Text(<<"6", "0">>), Text(<<>>), Text(<<"1", "0", "s">>)>>,
     <<Text(<<"6", "0">>), Text(<<"5", "0">>),
       Text(<<"9", "9", "9", "9", "9", "9", "9", "9", "h">>)>>}
TokenHeaders ==
    {<<Missing, Missing, Missing>>,
     <<Text(<<"4", "0", "0", "0", "0">>), Text(<<"3", "5", "0", "0", "0">>),
       Text(<<"1", "m">>)>>,
     <<Text(<<"4", "0", "0", "0", "0">>), Text(<<"3", "5", "0", "0", "0">>),
       Text(<<"1", "h", "1", "m", "1", "s">>)>>,
     <<Text(<<" ", "4", "0", "0", "0", "0">>), Text(<<"-", "5">>),
       Text(<<"1", ".", "5", "s">>)>>,
     <<Text(<<"a", "b", "c">>), Text(<<"3", "5", "0", "0", "0">>), Text(<<"1", "m">>)>>,
     <<Text(<<"4", "0", "0", "0", "0">>), Text(<<"3", "5", "0", "0", "0">>),
       Text(<<"9", "9", "9", "9", "9", "9", "9", "9", "h">>)>>}
HeaderMap(r, t) ==
    [limit_requests |-> r[1], remaining_requests |-> r[2],
     limit_tokens |-> t[1], remaining_tokens |-> t[2],
     reset_requests |-> r[3], reset_tokens |-> t[3]]
CheckedTokens == {0, 35000, 40000}

\* The clock advances (for the manager fed headers on its own).
HeaderTick ==
    /\ now < MaxHeaderTime
    /\ now' = now + 1
    /\ UNCHANGED <<manager_vars, bucket_vars, limit_vars, backoff_vars, batch_vars, arrivals, reports>>

\* A response's headers are given to update_rate_limits_from_headers.
UpdateRateLimitsFromHeaders(h) ==
    LET r == update_rate_limits_from_headers(limit_info, h, now) IN
    /\ limit_info' = r.info
    /\ last_update' = [called |-> TRUE, headers |-> h, at |-> now,
                       before |-> limit_info, raised |-> r.raised]
    /\ last_check' = NoCheck
    /\ UNCHANGED <<now, manager_vars, bucket_vars, reports, backoff_vars, batch_vars, arrivals>>

\* check_proactive_limits(estimated_tokens) is called on the tracked info.
CallCheckProactiveLimits(estimated_tokens) ==
    /\ last_check' = [called |-> TRUE, estimated_tokens |-> estimated_tokens,
                      outcome |-> CheckProactiveLimits(limit_info, estimated_tokens)]
    /\ UNCHANGED <<now, manager_vars, bucket_vars, limit_info, last_update, reports, backoff_vars, batch_vars, arrivals>>

HeaderNext ==
    \/ HeaderTick
    \/ \E r \in RequestHeaders, t \in TokenHeaders : UpdateRateLimitsFromHeaders(HeaderMap(r, t))
    \/ \E e \in CheckedTokens : CallCheckProactiveLimits(e)

HeaderSpec == Init /\ [][HeaderNext]_vars

\* ------------------------- a manager fed headers with and without limits
\* The headers of a response: requests and tokens entries that are missing,
\* that carry a limit of 0 or below, or that carry a limit above 0.
LimitRequestHeaders ==
    {<<Missing, Missing, Missing>>,
     <<Text(<<"0">>), Text(<<"5">>), Text(<<"1", "0", "s">>)>>,
     <<Text(<<"6", "0">>), Text(<<"0">>), Text(<<"1", "0", "s">>)>>,
     <<Text(<<"6", "0">>), Text(<<"5", "0">>), Text(<<"6", "m", "0", "s">>)>>}
LimitTokenHeaders ==
    {<<Missing, Missing, Missing>>,
     <<Text(<<"0">>), Text(<<"3", "5", "0", "0", "0">>), Text(<<"1", "m">>)>>,
     <<Text(<<"-", "1">>), Text(<<"3", "5", "0", "0", "0">>), Text(<<"1", "m">>)>>,
     <<Text(<<"4", "0", "0", "0", "0">>), Text(<<"3", "5", "0", "0", "0">>),
       Text(<<"1", "m">>)>>}

LimitNext ==
    \/ HeaderTick
    \/ \E r \in LimitRequestHeaders, t \in LimitTokenHeaders :
            UpdateRateLimitsFromHeaders(HeaderMap(r, t))
    \/ \E e \in CheckedTokens : CallCheckProactiveLimits(e)

LimitSpec == Init /\ [][LimitNext]_vars

\* ------------------------------------------------------- BatchProcessor
\* BatchProcessor(max_batch_size=2, max_wait_time=30, max_tokens_per_batch=4):
\* max_wait_time is one tick of the clock.
max_batch_size == 2
max_wait_time == 1
max_tokens_per_batch == 4
\* The estimated_tokens given to add_request.
RequestTokens == {1, 3, 5}
MaxBatchTime == 2

\* The while loop of _maybe_process_batch (lines 237-243): requests are taken
\* from the left of the deque while it has any, the batch is not full, and the
\* total of what is already in the batch is below max_tokens_per_batch.
RECURSIVE CollectBatch(_, _, _, _)
CollectBatch(pending, reqs, batch, total_tokens) ==
    IF /\ pending # <<>>
       /\ Len(batch) < max_batch_size
       /\ total_tokens < max_tokens_per_batch
    THEN CollectBatch(Tail(pending), reqs, Append(batch, Head(pending)),
                      total_tokens + reqs[Head(pending)].tokens)
    ELSE batch

\* Lines 227-231: the deque is full enough, or its oldest request has waited
\* max_wait_time.
ShouldProcess(pending, reqs, t) ==
    \/ Len(pending) >= max_batch_size
    \/ pending # <<>> /\ t - reqs[Head(pending)].timestamp >= max_wait_time

\* _maybe_process_batch at time t on a deque: the batch it forms (empty when
\* it forms none).
MaybeProcessBatch(pending, reqs, t) ==
    IF pending # <<>> /\ ShouldProcess(pending, reqs, t)
    THEN CollectBatch(pending, reqs, <<>>, 0)
    ELSE <<>>

\* The clock advances (for the batch processor).
BatchTick ==
    /\ now < MaxBatchTime
    /\ now' = now + 1
    /\ UNCHANGED <<manager_vars, bucket_vars, limit_vars, backoff_vars, batch_vars,
                   arrivals, reports>>

\* add_request(data, estimated_tokens) up to "await future" (lines 203-218):
\* neither "async with self._batch_lock" suspends, since no holder of the lock
\* awaits, so the append and _maybe_process_batch run as one step.  A batch
\* that is formed is handed to a new _process_batch task.
AddRequest(r, estimated_tokens) ==
    LET reqs == [requests EXCEPT ![r] = [state |-> "pending",
                                         tokens |-> estimated_tokens,
                                         timestamp |-> now]]
        pending == Append(pending_requests, r)
        batch == MaybeProcessBatch(pending, reqs, now)
    IN  /\ requests[r].state = "none"
        /\ \A q \in BatchRequests : q < r => requests[q].state # "none"
        /\ pending_requests' = SubSeq(pending, Len(batch) + 1, Len(pending))
        /\ requests' = [q \in BatchRequests |->
                            IF \E k \in 1..Len(batch) : batch[k] = q
                            THEN [reqs[q] EXCEPT !.state = "batched"]
                            ELSE reqs[q]]
        /\ batches' = IF batch = <<>> THEN batches ELSE Append(batches, batch)
        /\ UNCHANGED <<now, manager_vars, bucket_vars, limit_vars, backoff_vars,
                       arrivals, reports>>

\* _process_batch (lines 250-262), one turn of its loop: the next request of
\* the batch has its future resolved, and its add_request returns.
ProcessBatch(b) ==
    /\ b \in 1..Len(batches)
    /\ \E k \in 1..Len(batches[b]) :
            /\ requests[batches[b][k]].state = "batched"
            /\ \A j \in 1..(k - 1) : requests[batches[b][j]].state = "resolved"
            /\ requests' = [requests EXCEPT ![batches[b][k]].state = "resolved"]
    /\ UNCHANGED <<now, manager_vars, bucket_vars, limit_vars, backoff_vars,
                   pending_requests, batches, arrivals, reports>>

BatchNext ==
    \/ BatchTick
    \/ \E r \in BatchRequests, e \in RequestTokens : AddRequest(r, e)
    \/ \E b \in BatchRequests : ProcessBatch(b)

BatchSpec == Init /\ [][BatchNext]_vars

\* The event loop runs every _process_batch task, and the clock advances as
\* far as it is followed.
FairBatchSpec ==
    /\ Init /\ [][BatchNext]_vars
    /\ \A b \in BatchRequests : WF_vars(ProcessBatch(b))
    /\ WF_vars(BatchTick)

\* ------------------------------------------- calculate_delay on its own
\* The configurations and attempts tried. Returned delays are in hundredths
\* of a second, so that a jitter of up to 10% of a whole number of seconds is
\* exact.
MaxAttempt == 7
Attempts == -1..MaxAttempt
InitialDelays == {1, 2}
MaxDelays == {5, 60}
ExponentialBases == {1, 2, 3}
Hundredths == 100

\* random.uniform(-jitter_range, jitter_range) with jitter_range = delay * 0.1,
\* line 122-123: the draw as a percentage of the delay, both ends and points
\* between.
JitterPercents == {-10, -3, 0, 3, 10}

Max(a, b) == IF a >= b THEN a ELSE b

\* exponential_base ** e for e >= 0 (line 115).
RECURSIVE Pow(_, _)
Pow(b, e) == IF e <= 0 THEN 1 ELSE b * Pow(b, e - 1)

\* An exponent that is the attempt number itself.
ExponentOfAttempt(attempt) == attempt

\* The exponent of line 115: attempt - 1.
Exponent(attempt) == attempt - 1

\* ExponentialBackoff.calculate_delay(attempt), lines 109-125, in hundredths
\* of a second; percent is what random.uniform drew.
calculate_delay(b, attempt, percent) ==
    IF attempt <= 0 THEN 0
    ELSE LET delay == Min(b.initial_delay * Pow(b.exponential_base, Exponent(attempt)),
                          b.max_delay)
             jittered == IF b.jitter
                         THEN delay * Hundredths + delay * percent
                         ELSE delay * Hundredths
         IN  Max(0, jittered)

\* ExponentialBackoff(initial_delay, max_delay, exponential_base, jitter).
NewBackoff(initial_delay, max_delay, exponential_base, jitter) ==
    /\ backoff' = ExponentialBackoff(initial_delay, max_delay, exponential_base, jitter)
    /\ last_delay' = NoDelay
    /\ prev_delay' = NoDelay
    /\ UNCHANGED <<now, manager_vars, bucket_vars, limit_vars, reports, batch_vars, arrivals>>

\* backoff.calculate_delay(attempt).
CalculateDelay(attempt, percent) ==
    /\ prev_delay' = last_delay
    /\ last_delay' = [called |-> TRUE, attempt |-> attempt,
                      delay |-> calculate_delay(backoff, attempt, percent)]
    /\ UNCHANGED <<now, manager_vars, bucket_vars, limit_vars, reports, backoff, batch_vars, arrivals>>

BackoffNext ==
    \/ \E i \in InitialDelays, m \in MaxDelays, e \in ExponentialBases, j \in BOOLEAN :
            NewBackoff(i, m, e, j)
    \/ \E a \in Attempts, p \in JitterPercents : CalculateDelay(a, p)

BackoffSpec == Init /\ [][BackoffNext]_vars

\* ------------------------------------------------------------ properties
RECURSIVE SumOver(_, _)
SumOver(f, S) ==
    IF S = {} THEN 0
    ELSE LET x == CHOOSE y \in S : TRUE IN f[x] + SumOver(f, S \ {x})

PermitsHeld == SumOver(held, Calls)
InFlight == {i \in Calls : calls[i].pc = "in_flight"}

\* C1: the caller's operation is running only in an attempt in which the call
\* holds a permit, the proactive check said can-proceed, and both
\* request_bucket.consume(1) and token_bucket.consume(estimated_tokens) succeeded.
C1_OperationStartsOnlyWhenGated ==
    \A i \in Calls :
        calls[i].pc = "in_flight" =>
            /\ held[i] = 1
            /\ calls[i].can_proceed
            /\ calls[i].request_allowed
            /\ calls[i].tokens_allowed
            /\ calls[i].op_runs = 1

\* An operation running on an attempt that follows a refused attempt of the same call.
C1_Witness ==
    \E i \in Calls : calls[i].pc = "in_flight" /\ calls[i].refused > 0

\* C2: in every state of a TokenBucket used through consume and
\* wait_for_tokens while the clock advances, 0 <= tokens <= capacity.
C2_TokensWithinCapacity ==
    0 <= bucket.tokens /\ bucket.tokens <= bucket.capacity

\* A bucket that was debited, refilled up to its capacity, and on which a
\* wait_for_tokens has returned True.
C2_Witness ==
    /\ consumed > 0
    /\ bucket.tokens = bucket.capacity
    /\ bucket.last_refill > 0
    /\ \E k \in Tasks : tasks[k].op = "wait" /\ tasks[k].result = "true"

\* C3: whatever the interleaving of the tasks, the tokens taken by successful
\* consumes never exceed capacity + refill_rate * (time since creation).
C3_NoDoubleSpend ==
    consumed * Scale <= bucket.capacity + bucket.refill * now

\* Two tasks in consume at once, one holding the lock before its debit, for
\* amounts the bucket cannot both give.
C3_Witness ==
    \E k, j \in Tasks :
        /\ k # j
        /\ tasks[k].pc = "debit" /\ lock = k
        /\ tasks[j].pc = "lock" /\ tasks[j].n > 0
        /\ bucket.tokens < (tasks[k].n + tasks[j].n) * Scale

\* The operations started in the 60 seconds that end at time t.
WindowOps(t) ==
    {k \in 1..Len(op_log) : op_log[k][1] > t - TicksPerMinute /\ op_log[k][1] <= t}
WindowTokens(t) == SumOver([k \in 1..Len(op_log) |-> op_log[k][2]], WindowOps(t))

\* C4: in every trailing 60-second window at most requests_per_minute operations
\* are started and their estimated_tokens sum to at most tokens_per_minute.
C4_PerMinuteLimitsEnforced ==
    \A t \in 0..now :
        /\ Cardinality(WindowOps(t)) <= requests_per_minute
        /\ WindowTokens(t) <= tokens_per_minute

\* C5: at most max_concurrent_requests calls hold a permit, and at most that
\* many operations are running.
C5_ConcurrencyBounded ==
    /\ PermitsHeld <= max_concurrent_requests
    /\ Cardinality(InFlight) <= max_concurrent_requests

\* Every permit is held, one of them by a running operation, and a call is
\* waiting for the semaphore.
C5_Witness ==
    /\ PermitsHeld = max_concurrent_requests
    /\ InFlight # {}
    /\ \E i \in Calls : calls[i].pc = "acquire"

\* C6: a call that has left rate_limited_request holds no permit, whatever the
\* exit path; with no call in progress every permit is free.
C6_PermitReleasedOnEveryExit ==
    /\ \A i \in Calls : calls[i].pc = "done" => held[i] = 0
    /\ (\A i \in Calls : calls[i].pc \in {"idle", "done"})
            => semaphore = max_concurrent_requests

\* C7: of max_concurrent_requests + 1 calls, the operations that have started
\* before any permit was released are at most max_concurrent_requests: each
\* further start follows a release.
C7_ExtraCallWaitsForRelease ==
    Len(op_log) <= max_concurrent_requests + releases

\* max_concurrent_requests + 1 calls made, none released yet: one waits at the
\* semaphore while the others run their operations.
C7_Witness ==
    /\ releases = 0
    /\ \A i \in Calls : calls[i].pc \in {"acquire", "in_flight"}
    /\ Cardinality(InFlight) = max_concurrent_requests

\* A finished call whose operation reported a rate-limit failure without a
\* truthy retry_after every time it ran, and that no attempt of which was
\* stopped by the proactive check or by a bucket.
AlwaysRateLimited(i) ==
    /\ calls[i].pc = "done"
    /\ calls[i].rl_reports > 0
    /\ calls[i].rl_reports = calls[i].op_runs
    /\ calls[i].retry_after_sleeps = 0
    /\ calls[i].refused = 0
    /\ calls[i].result # "type_error"

\* C8: with max_retries = 3 and an operation that reports a rate-limit failure
\* on every attempt, the operation is attempted exactly 3 times, each attempt
\* with a backoff sleep, and the call ends with "max retries exceeded".
C8_ThreeAttemptsThenMaxRetries ==
    \A i \in Calls :
        AlwaysRateLimited(i) =>
            /\ calls[i].op_runs = max_retries
            /\ calls[i].backoff_sleeps = max_retries
            /\ calls[i].result = "max_retries"

\* C9: a logical call whose every attempt is reported rate-limited, with
\* max_retries = N, raises retried_requests by N - 1 and rate_limited_requests
\* by N (stated for the first call made, the metrics starting at 0).
C9_RetryMetrics ==
    \A i \in Calls :
        (issued = 1 /\ AlwaysRateLimited(i)) =>
            /\ metrics.retried_requests = max_retries - 1
            /\ metrics.rate_limited_requests = max_retries

\* C10: when the operation reported a rate-limit failure on attempt k < max_retries
\* and attempt k + 1 passed the gate, the operation is executed again and the
\* call ends with the outcome of that run (success when it succeeds), not with
\* a failure of rate_limited_request itself.
C10_RetryRunsOperationAgain ==
    \A i \in Calls :
        (/\ calls[i].pc = "done"
         /\ calls[i].rl_reports = 1
         /\ calls[i].refused = 0
         /\ calls[i].attempt = 2
         /\ calls[i].can_proceed /\ calls[i].request_allowed /\ calls[i].tokens_allowed)
        => /\ calls[i].op_runs = 2
           /\ calls[i].result \in {"success", "error"}

\* C11: when the operation fails with an error other than RateLimitError, the
\* call ends at once with that error: the permit is released in the same step,
\* rate_limited_requests and retried_requests keep their values, the operation
\* has run once, and no sleep follows the failure (the only sleeps of the call
\* are those of attempts refused before the operation started).
C11_OtherErrorsFailFast ==
    /\ [](\A i \in Calls :
            calls[i].result = "error" =>
                /\ calls[i].pc = "done"
                /\ held[i] = 0
                /\ ~calls[i].suspended
                /\ calls[i].op_runs = 1
                /\ calls[i].rl_reports = 0
                /\ calls[i].retry_after_sleeps = 0
                /\ calls[i].backoff_sleeps = calls[i].refused)
    /\ [][\A i \in Calls :
            (calls[i].result # "error" /\ calls'[i].result = "error") =>
                /\ calls[i].pc = "in_flight"
                /\ metrics' = metrics
                /\ semaphore' = semaphore + 1]_vars

\* A call has ended with its operation's error, on an attempt that followed a
\* refused one, and its permit is free again.
C11_Witness ==
    \E i \in Calls :
        /\ calls[i].result = "error" /\ calls[i].refused > 0
        /\ semaphore = max_concurrent_requests

\* C12: a call every attempt of which was refused (by the proactive check or by
\* a bucket) has made exactly max_retries attempts, each followed by a backoff
\* sleep, has not started its operation, has released its permit and has ended
\* with "max retries exceeded"; and a call in its retry loop always leaves it.
C12_BlockedCallTerminates ==
    /\ [](\A i \in Calls :
            (calls[i].pc = "done" /\ calls[i].attempt > 0
                /\ calls[i].refused = calls[i].attempt) =>
                /\ calls[i].attempt = max_retries
                /\ calls[i].backoff_sleeps = max_retries
                /\ calls[i].op_runs = 0
                /\ calls[i].result = "max_retries"
                /\ held[i] = 0 /\ ~calls[i].suspended)
    /\ (calls[SoleCaller].pc \in {"loop", "backoff_sleep"})
            ~> (calls[SoleCaller].pc \notin {"loop", "backoff_sleep"})

\* A call has ended with "max retries exceeded" after max_retries refusals, the
\* last of them by the proactive check (requests remaining 0 is tracked), and
\* every permit is free.
C12_Witness ==
    \E i \in Calls :
        /\ calls[i].pc = "done" /\ calls[i].result = "max_retries"
        /\ calls[i].refused = max_retries
        /\ rate_limit_info.rpm.tracked /\ rate_limit_info.rpm.remaining <= 0
        /\ semaphore = max_concurrent_requests

\* Decimal digits of a natural number, and a reset string written as its
\* (digits)(unit) pairs; the seconds such pairs say, s = 1, m = 60, h = 3600.
RECURSIVE DecimalText(_)
DecimalText(n) ==
    IF n < 10 THEN <<DigitChars[n + 1]>>
    ELSE DecimalText(n \div 10) \o <<DigitChars[(n % 10) + 1]>>

RECURSIVE ResetString(_)
ResetString(pairs) ==
    IF pairs = <<>> THEN <<>>
    ELSE DecimalText(Head(pairs)[1]) \o <<Head(pairs)[2]>> \o ResetString(Tail(pairs))

RECURSIVE PairsSeconds(_)
PairsSeconds(pairs) ==
    IF pairs = <<>> THEN 0
    ELSE Head(pairs)[1] * (CASE Head(pairs)[2] = "s" -> 1
                             [] Head(pairs)[2] = "m" -> 60
                             [] Head(pairs)[2] = "h" -> 3600)
         + PairsSeconds(Tail(pairs))

Seconds(d) == d.hours * 3600 + d.seconds

WellFormedResets ==
    {<<<<10, "s">>>>, <<<<6, "m">>, <<0, "s">>>>, <<<<1, "m">>>>,
     <<<<1, "h">>, <<1, "m">>, <<1, "s">>>>}

\* The entry update_rate_limits_from_headers is to store for limit, remaining
\* and reset pairs given at time t.
Stored(entry, limit, remaining, pairs, t) ==
    /\ entry.tracked
    /\ entry.limit = limit
    /\ entry.remaining = remaining
    /\ Seconds(entry.reset_duration) = PairsSeconds(pairs)
    /\ Seconds(entry.reset_time) = t * SecondsPerTick + PairsSeconds(pairs)

\* C13: after update_rate_limits_from_headers on headers whose six values are
\* well formed (decimal limits and remainings, the limits positive, resets
\* written as (digits)(unit) pairs within datetime's range), the requests entry
\* and the tokens entry hold the limit and the remaining that were written and
\* a reset_duration that is the sum of the pairs with s = 1, m = 60, h = 3600.
C13_WellFormedHeadersStored ==
    \A lr \in {60}, rr \in {0, 50}, pr \in WellFormedResets,
       lt \in {40000}, rt \in {35000}, pt \in WellFormedResets :
        (/\ last_update.called
         /\ last_update.headers =
                HeaderMap(<<Text(DecimalText(lr)), Text(DecimalText(rr)),
                            Text(ResetString(pr))>>,
                          <<Text(DecimalText(lt)), Text(DecimalText(rt)),
                            Text(ResetString(pt))>>))
        => /\ ~last_update.raised
           /\ Stored(limit_info.rpm, lr, rr, pr, last_update.at)
           /\ Stored(limit_info.tpm, lt, rt, pt, last_update.at)

\* The headers 60 / 50 / "6m0s" and 40000 / 35000 / "1h1m1s" were given at a
\* time after the start, over entries stored by an earlier call, and 360 and
\* 3661 seconds are stored.
C13_Witness ==
    /\ last_update.called /\ last_update.at > 0
    /\ last_update.before.rpm.tracked /\ last_update.before.tpm.tracked
    /\ last_update.headers.reset_requests = Text(<<"6", "m", "0", "s">>)
    /\ last_update.headers.reset_tokens = Text(<<"1", "h", "1", "m", "1", "s">>)
    /\ limit_info.rpm.limit = 60 /\ limit_info.rpm.remaining = 50
    /\ limit_info.rpm.reset_duration = Duration(0, 360)
    /\ limit_info.tpm.limit = 40000 /\ limit_info.tpm.remaining = 35000
    /\ limit_info.tpm.reset_duration = Duration(1, 61)

\* A limit or remaining value of the dimension is not an integer.
MalformedRequests(h) ==
    ~HeaderInt(h.limit_requests).ok \/ ~HeaderInt(h.remaining_requests).ok
MalformedTokens(h) ==
    ~HeaderInt(h.limit_tokens).ok \/ ~HeaderInt(h.remaining_tokens).ok

\* C14: update_rate_limits_from_headers returns normally whatever the strings in
\* the map, and a dimension with a limit or remaining value that is not an
\* integer keeps the entry it had before the call.
C14_HeaderUpdateNeverRaises ==
    last_update.called =>
        /\ ~last_update.raised
        /\ MalformedRequests(last_update.headers) => limit_info.rpm = last_update.before.rpm
        /\ MalformedTokens(last_update.headers) => limit_info.tpm = last_update.before.tpm

\* The limit, remaining and reset of a dimension are well formed, the limit
\* positive and the reset within datetime's range.
GoodEntry(limit, remaining, reset) ==
    /\ HeaderInt(limit).ok /\ HeaderInt(limit).value > 0
    /\ HeaderInt(remaining).ok
    /\ ~Overflows(parse_duration(ResetText(reset)))
NewEntry(limit, remaining, reset, t) ==
    RateLimitInfoAt(HeaderInt(limit).value, HeaderInt(remaining).value, t,
                    parse_duration(ResetText(reset)))

\* C15: when one dimension's limit or remaining value is not an integer and the
\* other dimension's headers are well formed with a positive limit, the other
\* dimension's entry is the one the headers give.
C15_OnlyMalformedDimensionStale ==
    LET h == last_update.headers IN
    last_update.called =>
        /\ (MalformedRequests(h)
                /\ GoodEntry(h.limit_tokens, h.remaining_tokens, h.reset_tokens))
            => limit_info.tpm = NewEntry(h.limit_tokens, h.remaining_tokens,
                                         h.reset_tokens, last_update.at)
        /\ (MalformedTokens(h)
                /\ GoodEntry(h.limit_requests, h.remaining_requests, h.reset_requests))
            => limit_info.rpm = NewEntry(h.limit_requests, h.remaining_requests,
                                         h.reset_requests, last_update.at)

\* C16: check_proactive_limits(estimated_tokens) returns can_proceed = False
\* exactly when a tracked requests entry has remaining <= 0 or a tracked tokens
\* entry has remaining < estimated_tokens; with no entry tracked it returns
\* (True, None).
C16_ProactiveBlockCondition ==
    last_check.called =>
        /\ (last_check.outcome = "blocked") <=>
                \/ limit_info.rpm.tracked /\ limit_info.rpm.remaining <= 0
                \/ limit_info.tpm.tracked
                        /\ limit_info.tpm.remaining < last_check.estimated_tokens
        /\ (~limit_info.rpm.tracked /\ ~limit_info.tpm.tracked)
                => last_check.outcome = "ok"

\* The check did not block an estimate equal to the tokens remaining, with the
\* requests entry tracked and not exhausted.
C16_Witness ==
    /\ last_check.called /\ last_check.outcome # "blocked"
    /\ limit_info.tpm.tracked
    /\ limit_info.tpm.remaining = last_check.estimated_tokens
    /\ limit_info.rpm.tracked /\ limit_info.rpm.remaining > 0

\* C17: with limit info tracked and not exhausted the proactive check returns
\* (True, None) and the attempt goes on to the buckets: no call ends with an
\* error raised by the check.
C17_AdvisoryThresholdNeverFails ==
    \A i \in Calls : calls[i].result # "type_error"

\* C18: get_current_usage changes nothing of the manager, and two calls of it
\* with no activity and no clock advance between them return the same report.
C18_UsageReadOnly ==
    /\ [](Len(reports) = 2 => reports[1] = reports[2])
    /\ [][(reports' # reports /\ reports' # <<>>) =>
            UNCHANGED <<request_bucket, token_bucket, semaphore, metrics,
                        rate_limit_info, request_times, token_usage>>]_vars

\* Two reports were taken one after the other while an operation was running,
\* after the clock had advanced, and they count a request.
C18_Witness ==
    /\ Len(reports) = 2
    /\ reports[2].requests_last_minute >= 1
    /\ reports[2].concurrent_requests = 1
    /\ calls[SoleCaller].pc = "in_flight"
    /\ now > 0

\* What a report says of a call that needs estimated_tokens.
Counts(report, estimated_tokens) ==
    /\ report.requests_last_minute >= 1
    /\ report.tokens_last_minute >= estimated_tokens

\* C19 as stated: a report taken within 60 seconds after a call has completed
\* successfully counts at least one request and the call's estimated_tokens.
C19_CountedAfterCompletion ==
    \A i \in Calls :
        (calls[i].result = "success" /\ now - calls[i].ended_at < TicksPerMinute)
            => \A k \in 1..Len(reports) : Counts(reports[k], calls[i].estimated_tokens)

\* C19: a report taken less than 60 seconds after the operation of a call that
\* has completed successfully started counts at least one request and the
\* call's estimated_tokens.
C19_CountedAfterStart ==
    \A i \in Calls :
        (calls[i].result = "success" /\ now - calls[i].started_at < TicksPerMinute)
            => \A k \in 1..Len(reports) : Counts(reports[k], calls[i].estimated_tokens)

\* A report taken after a successful call whose operation started at one time
\* and ended at a later one, less than 60 seconds after it started.
C19_Witness ==
    \E i \in Calls :
        /\ calls[i].result = "success"
        /\ calls[i].started_at < calls[i].ended_at
        /\ now - calls[i].started_at < TicksPerMinute
        /\ Len(reports) > 0

\* C20: the concurrent_requests that get_current_usage reports is
\* max_concurrent_requests minus the free permits, is the number of calls that
\* hold a permit, and lies in 0..max_concurrent_requests.
C20_ConcurrentRequestsReported ==
    LET reported == get_current_usage(now).concurrent_requests IN
    /\ reported = max_concurrent_requests - semaphore
    /\ reported = PermitsHeld
    /\ reported \in 0..max_concurrent_requests

\* Every permit in use is reported while another call waits for one.
C20_Witness ==
    /\ get_current_usage(now).concurrent_requests = max_concurrent_requests
    /\ \E i \in Calls : calls[i].pc = "acquire"
    /\ \E i \in Calls : calls[i].pc = "in_flight"

\* C21: consume(n) first sets tokens to min(capacity, tokens + elapsed *
\* refill_rate) and last_refill to the time; then with tokens >= n it takes
\* exactly n and returns True, and otherwise it returns False and leaves the
\* refilled count as it is.
C21_ConsumeRefillsThenDebits ==
    [][\A k \in Tasks :
        LET refilled == Min(bucket.capacity,
                            bucket.tokens + (now - bucket.last_refill) * bucket.refill)
        IN  /\ (tasks[k].pc = "lock" /\ tasks'[k] # tasks[k]) =>
                    /\ bucket'.tokens = refilled
                    /\ bucket'.last_refill = now
                    /\ (tasks'[k].pc = "debit") <=> (refilled >= tasks[k].n * Scale)
                    /\ (tasks[k].op = "consume" /\ tasks'[k].pc # "debit")
                            => tasks'[k].result = "false"
            /\ (tasks[k].pc = "debit" /\ tasks'[k] # tasks[k]) =>
                    /\ bucket'.tokens = bucket.tokens - tasks[k].n * Scale
                    /\ bucket'.tokens >= 0
                    /\ tasks'[k].result = "true"]_vars

\* A consume has returned False on a bucket it had refilled, whose tokens are
\* still there, after an earlier consume had taken some.
C21_Witness ==
    \E k \in Tasks :
        /\ tasks[k].op = "consume" /\ tasks[k].result = "false"
        /\ bucket.last_refill > 0 /\ bucket.last_refill = now
        /\ bucket.tokens > 0
        /\ consumed > 0

\* C26: wait_for_tokens(n, timeout) returns True only from a consume(n) of its
\* own that succeeded, the only one of the call, which took exactly n; it
\* returns False only when a timeout was given and at least that long has
\* passed since the call started, and then the call has taken nothing.
C26_WaitForTokensOutcome ==
    /\ [](\A k \in Tasks :
            (tasks[k].op = "wait" /\ tasks[k].pc = "idle") =>
                /\ tasks[k].result = "true" => tasks[k].debits = 1
                /\ tasks[k].result = "false" => tasks[k].debits = 0)
    /\ [][\A k \in Tasks :
            (tasks[k].op = "wait" /\ tasks[k].pc # "idle" /\ tasks'[k].pc = "idle") =>
                /\ tasks'[k].result = "true" =>
                        /\ tasks[k].pc = "debit"
                        /\ bucket'.tokens = bucket.tokens - tasks[k].n * Scale
                        /\ consumed' = consumed + tasks[k].n
                /\ tasks'[k].result = "false" =>
                        /\ tasks[k].timeout.given
                        /\ now - tasks[k].start_time >= tasks[k].timeout.ticks
                        /\ consumed' = consumed]_vars

\* A wait_for_tokens has returned True on a bucket from which more than its
\* capacity has been taken (there was a refill), and another has returned False
\* on its timeout.
C26_Witness ==
    \E k, j \in Tasks :
        /\ tasks[k].op = "wait" /\ tasks[k].pc = "idle" /\ tasks[k].result = "true"
        /\ consumed > bucket_capacity
        /\ tasks[j].op = "wait" /\ tasks[j].pc = "idle" /\ tasks[j].result = "false"

\* The whole capacity was taken from the bucket before any time had passed,
\* and the bucket was not called at a later time (a call at a later time moves
\* last_refill).
TakenAtOnce ==
    /\ consumed * Scale = bucket.capacity
    /\ bucket.last_refill = 0

\* C22: for every capacity and refill rate, once capacity tokens have been
\* taken from a new bucket with no time elapsing, a consume(1) made before any
\* time has passed is refused, and a consume(1) made when 1 / refill_rate
\* seconds or more have passed succeeds.
C22_EmptyThenRefilled ==
    [][\A k \in Tasks :
        (TakenAtOnce /\ tasks[k].pc = "lock" /\ tasks[k].n = 1 /\ tasks'[k] # tasks[k]) =>
            /\ now = 0 => tasks'[k].pc # "debit"
            /\ (tasks[k].op = "consume" /\ now = 0) => tasks'[k].result = "false"
            /\ now * bucket.refill >= Scale => tasks'[k].pc = "debit"]_vars

\* A bucket of capacity 1 refilled at 2 tokens a minute has given two tokens
\* to consume(1) calls by the time 30 seconds have passed: the first at time 0,
\* the only token there was, and the second at 30 seconds from the refill.
C22_Witness ==
    /\ bucket.capacity = Scale /\ bucket.refill = 2
    /\ now * bucket.refill = Scale
    /\ consumed = 2
    /\ bucket.last_refill = now /\ bucket.tokens = 0
    /\ tasks[SoleTask].op = "consume" /\ tasks[SoleTask].result = "true"

C24_DelayWithinBounds ==
    last_delay.called =>
        /\ last_delay.delay >= 0
        /\ last_delay.delay <= Hundredths * backoff.max_delay

\* C25: when the operation's rate-limit failure carries a retry_after value
\* (0 included) the manager sleeps that long and does not sleep through the
\* backoff; when it carries none the manager sleeps backoff(attempt).
C25_RetryAfterHonoured ==
    [][\A i \in Calls :
        calls'[i].rl_reports = calls[i].rl_reports + 1 =>
            IF calls'[i].retry_after_given = calls[i].retry_after_given + 1
            THEN /\ calls'[i].retry_after_sleeps = calls[i].retry_after_sleeps + 1
                 /\ calls'[i].backoff_sleeps = calls[i].backoff_sleeps
            ELSE /\ calls'[i].retry_after_sleeps = calls[i].retry_after_sleeps
                 /\ calls'[i].backoff_sleeps = calls[i].backoff_sleeps + 1]_vars

\* C27: bucket debits are never refunded. No step leaves more in request_bucket
\* or token_bucket than the refill by elapsed time gives; the steps that end an
\* operation (success, rate-limit report, other error) leave both buckets as
\* they are; and an attempt refused by one bucket leaves the other bucket
\* reduced by what the attempt took from it.
C27_DebitsNeverRefunded ==
    [][/\ Refill(request_bucket', now').tokens <= Refill(request_bucket, now').tokens
       /\ Refill(token_bucket', now').tokens <= Refill(token_bucket, now').tokens
       /\ \A i \in Calls :
            /\ (calls[i].pc = "in_flight" /\ calls'[i].pc # "in_flight") =>
                    /\ request_bucket' = request_bucket
                    /\ token_bucket' = token_bucket
            /\ (calls'[i].refused = calls[i].refused + 1 /\ calls'[i].can_proceed) =>
                    /\ calls'[i].request_allowed =>
                            request_bucket'.tokens = Refill(request_bucket, now).tokens - Scale
                    /\ calls'[i].tokens_allowed =>
                            token_bucket'.tokens = Refill(token_bucket, now).tokens
                                                   - calls[i].estimated_tokens * Scale]_vars

\* One call's operation was reported rate-limited and the next call's attempt
\* was refused by the token bucket alone: with no time passed since, the
\* request bucket is short of the two requests taken and the token bucket of
\* the first call's token.
C27_Witness ==
    \E i, j \in Calls :
        /\ calls[i].rl_reports > 0 /\ calls[i].pc = "done"
        /\ calls[j].pc = "backoff_sleep"
        /\ calls[j].request_allowed /\ ~calls[j].tokens_allowed
        /\ request_bucket.last_refill = now
        /\ request_bucket.tokens = request_bucket.capacity - 2 * Scale
        /\ token_bucket.tokens < token_bucket.capacity

\* C28: tracked entries do not expire. While the stored requests entry has
\* remaining <= 0, every check_proactive_limits call blocks, whatever the
\* entry's reset time and the time of the call, until
\* update_rate_limits_from_headers stores another entry.
C28_StaleEntryStillBlocks ==
    (last_check.called /\ limit_info.rpm.tracked /\ limit_info.rpm.remaining <= 0) =>
        last_check.outcome = "blocked"

\* A requests entry with nothing remaining was stored, its reset time has
\* passed, and a check for no tokens at all was blocked.
C28_Witness ==
    /\ last_check.called /\ last_check.outcome = "blocked"
    /\ last_check.estimated_tokens = 0
    /\ limit_info.rpm.tracked /\ limit_info.rpm.remaining = 0
    /\ Seconds(limit_info.rpm.reset_time) < now * SecondsPerTick

\* C29: an attempt stopped by the proactive check or by a bucket's refusal adds
\* one to the attempt counter and to total_requests and nothing else: up to the
\* end of its sleep, rate_limited_requests, retried_requests,
\* successful_requests and the tracking window are as they were.
C29_RefusedAttemptCountsOnlyTotal ==
    [][\A i \in Calls :
        /\ calls'[i].refused = calls[i].refused + 1 =>
                /\ calls'[i].attempt = calls[i].attempt + 1
                /\ metrics' = [metrics EXCEPT !.total_requests = @ + 1]
                /\ request_times' = request_times
                /\ token_usage' = token_usage
        /\ (calls[i].pc = "backoff_sleep" /\ calls'[i].pc # "backoff_sleep") =>
                /\ calls'[i].attempt = calls[i].attempt
                /\ metrics' = metrics
                /\ request_times' = request_times
                /\ token_usage' = token_usage]_vars

\* A call was stopped once by the proactive check, after another call was
\* stopped by a bucket at every attempt: total_requests counts all these
\* attempts and the other counters are where the one operation run left them.
C29_Witness ==
    \E i, j \in Calls :
        /\ calls[i].pc = "loop" /\ ~calls[i].can_proceed
        /\ calls[i].refused = 1 /\ calls[i].attempt = 1
        /\ calls[j].result = "max_retries" /\ calls[j].can_proceed
        /\ calls[j].refused = max_retries
        /\ metrics.total_requests = max_retries + 2
        /\ metrics.successful_requests = 1
        /\ metrics.rate_limited_requests = 0
        /\ metrics.retried_requests = 0
        /\ Len(request_times) = 1

\* The call sleeps between two attempts, in backoff or for retry_after.
Sleeping(i) == calls[i].pc \in {"backoff_sleep", "rate_limited_sleep"}

\* The call is inside "async with self.semaphore".
InsideSemaphore(i) ==
    calls[i].pc \in {"loop", "backoff_sleep", "rate_limited_sleep", "in_flight", "didnt_stop"}

\* C30: a logical call keeps its permit across all its attempts, sleeps
\* included; while max_concurrent_requests calls sleep between attempts no
\* permit is free, no other call is past the semaphore, and no step of another
\* call takes a permit or starts an operation.
C30_PermitKeptWhileSleeping ==
    /\ [](\A i \in Calls :
            /\ InsideSemaphore(i) => held[i] = 1
            /\ Cardinality({k \in Calls \ {i} : Sleeping(k)}) = max_concurrent_requests =>
                    /\ semaphore = 0
                    /\ ~InsideSemaphore(i))
    /\ [][\A i \in Calls :
            Cardinality({k \in Calls \ {i} : Sleeping(k)}) = max_concurrent_requests =>
                /\ ~InsideSemaphore(i)'
                /\ held'[i] = held[i]]_vars

\* One call sleeps in backoff after its second attempt, time has passed, and
\* the other caller still waits for the semaphore with no permit free.
C30_Witness ==
    \E i, j \in Calls :
        /\ calls[i].pc = "backoff_sleep" /\ calls[i].attempt = 2
        /\ calls[j].pc = "acquire"
        /\ now > calls[i].started_at
        /\ semaphore = 0

\* Caller i made its current call before caller j made theirs.
ArrivedBefore(i, j) ==
    \E a, b \in 1..Len(arrivals) : a < b /\ arrivals[a] = i /\ arrivals[b] = j

\* C31: no order is kept between calls. With two permits, a call that sleeps
\* in backoff does not hold back a call made after it: the later call can take
\* the free permit at once (and so start its operation first).
C31_LaterCallNotHeldBack ==
    \A i, j \in Calls :
        (ArrivedBefore(i, j) /\ calls[i].pc = "backoff_sleep" /\ calls[i].op_runs = 0
            /\ calls[j].pc = "acquire" /\ semaphore > 0)
        => ENABLED Acquire(j)

\* The call made first sleeps in backoff and has not run its operation; the
\* call made after it is running its operation.
C31_Witness ==
    \E i, j \in Calls :
        /\ ArrivedBefore(i, j)
        /\ calls[i].pc = "backoff_sleep" /\ calls[i].op_runs = 0
        /\ calls[j].pc = "in_flight" /\ calls[j].op_runs = 1
        /\ held[i] = 1 /\ held[j] = 1

\* The last n entries of a sequence.
LastOf(seq, n) == SubSeq(seq, Len(seq) - n + 1, Len(seq))

\* C32: the tracking window stays paired and bounded. _request_times and
\* _token_usage have the same length and the times are in non-decreasing
\* order; an attempt that reaches the tracking step appends exactly one entry to
\* each, drops the same number of oldest entries from both, and leaves no entry
\* older than 300 seconds.
C32_TrackingPairedAndBounded ==
    /\ [](/\ Len(request_times) = Len(token_usage)
          /\ \A a, b \in 1..Len(request_times) : a <= b => request_times[a] <= request_times[b])
    /\ [][\A i \in Calls :
            (calls[i].pc = "loop" /\ calls'[i].pc \in {"in_flight", "didnt_stop"}) =>
                LET times == Append(request_times, now)
                    usage == Append(token_usage, calls[i].estimated_tokens)
                    kept == Len(request_times')
                IN  /\ kept >= 1 /\ kept <= Len(times)
                    /\ request_times' = LastOf(times, kept)
                    /\ token_usage' = LastOf(usage, kept)
                    /\ \A a \in 1..kept : request_times'[a] >= now - 5 * TicksPerMinute
                    /\ \A a \in 1..(Len(times) - kept) : times[a] < now - 5 * TicksPerMinute]_vars

\* Two entries were tracked 30 seconds apart, and an attempt more than 300
\* seconds after the first has dropped the first pair and kept the second.
C32_Witness ==
    /\ Len(request_times) = 2 /\ Len(token_usage) = 2
    /\ request_times[1] = 1
    /\ request_times[2] = 1 + 5 * TicksPerMinute
    /\ now = request_times[2]
    /\ \E i \in Calls : calls[i].pc = "in_flight" /\ token_usage[2] = calls[i].estimated_tokens

\* C33: successful_requests + rate_limited_requests <= total_requests and
\* retried_requests <= rate_limited_requests; total_requests goes up by one with
\* each attempt and with nothing else, and a call that has ended made between 1
\* and max_retries attempts.
C33_MetricsRelations ==
    /\ [](/\ metrics.successful_requests + metrics.rate_limited_requests
                <= metrics.total_requests
          /\ metrics.retried_requests <= metrics.rate_limited_requests
          /\ \A i \in Calls :
                /\ calls[i].attempt <= max_retries
                /\ calls[i].pc = "done" => calls[i].attempt >= 1)
    /\ [][/\ \A i \in Calls :
                calls'[i].attempt = calls[i].attempt + 1 =>
                    metrics'.total_requests = metrics.total_requests + 1
          /\ metrics'.total_requests # metrics.total_requests =>
                \E i \in Calls : calls'[i].attempt = calls[i].attempt + 1]_vars

\* After a successful call and a call whose operation was reported rate-limited
\* once, a third call has ended after max_retries refused attempts:
\* total_requests has counted every attempt of the three.
C33_Witness ==
    \E i \in Calls :
        /\ calls[i].result = "max_retries" /\ calls[i].attempt = max_retries
        /\ metrics.successful_requests = 1
        /\ metrics.rate_limited_requests = 1
        /\ metrics.retried_requests = 1
        /\ metrics.total_requests = max_retries + 3

\* The tokens a bucket has at time t, its refill by elapsed time included.
Available(b, t) == Min(b.capacity, b.tokens + (t - b.last_refill) * b.refill)

\* C34: in the bucket stage both buckets are tried before either result is
\* looked at. An attempt the request bucket refuses still takes
\* estimated_tokens from the token bucket when it has them, and an attempt the
\* token bucket refuses still takes 1 from the request bucket when it has it;
\* each bucket is refilled to the time of the attempt whatever the other said.
C34_BothBucketsAlwaysTried ==
    [][\A i \in Calls :
        (calls'[i].refused = calls[i].refused + 1 /\ calls'[i].can_proceed) =>
            LET in_requests == Available(request_bucket, now)
                in_tokens == Available(token_bucket, now)
                wanted == calls[i].estimated_tokens * Scale
            IN  /\ calls'[i].request_allowed <=> in_requests >= Scale
                /\ calls'[i].tokens_allowed <=> in_tokens >= wanted
                /\ request_bucket'.last_refill = now
                /\ token_bucket'.last_refill = now
                /\ request_bucket'.tokens = IF in_requests >= Scale
                                            THEN in_requests - Scale
                                            ELSE in_requests
                /\ token_bucket'.tokens = IF in_tokens >= wanted
                                          THEN in_tokens - wanted
                                          ELSE in_tokens]_vars

\* An attempt was refused by the request bucket alone, and with no time passed
\* since the token bucket is short of the tokens that attempt took.
C34_Witness ==
    \E i \in Calls :
        /\ calls[i].pc = "backoff_sleep"
        /\ calls[i].can_proceed /\ ~calls[i].request_allowed /\ calls[i].tokens_allowed
        /\ calls[i].attempt = 1
        /\ token_bucket.last_refill = now
        /\ token_bucket.tokens = token_bucket.capacity - calls[i].estimated_tokens * Scale
        /\ request_bucket.tokens < Scale

\* ---------------------------------------------------------------- C35
\* A call that asks for more tokens than the token bucket can ever hold.
OverCapacity(i) == calls[i].estimated_tokens > tokens_per_minute

\* The request bucket after consume(1) at the current time.
RequestsAfterAttempt ==
    IF Available(request_bucket, now) >= Scale
    THEN Available(request_bucket, now) - Scale
    ELSE Available(request_bucket, now)

\* C35, as stated: a call with estimated_tokens > tokens_per_minute never starts
\* its operation, every attempt of it is refused by the token bucket and debits
\* the request bucket when it has a token, and the call ends with "max retries
\* exceeded" after max_retries attempts.
C35_EveryAttemptRefusedByTokenBucket ==
    /\ [](\A i \in Calls : OverCapacity(i) =>
            /\ calls[i].op_runs = 0
            /\ calls[i].pc = "done" =>
                    calls[i].result = "max_retries" /\ calls[i].attempt = max_retries)
    /\ [][\A i \in Calls :
            (OverCapacity(i) /\ calls'[i].attempt = calls[i].attempt + 1) =>
                /\ calls'[i].can_proceed /\ ~calls'[i].tokens_allowed
                /\ request_bucket'.tokens = RequestsAfterAttempt]_vars

\* C35, amended: a call with estimated_tokens > tokens_per_minute never starts
\* its operation.  Every attempt of it that passes the proactive check is
\* refused by the token bucket, which keeps its tokens, and debits the request
\* bucket when it has a token; an attempt the proactive check blocks touches
\* neither bucket; an attempt whose proactive check raises ends the call with
\* that error.  Otherwise the call ends with "max retries exceeded" after
\* max_retries attempts.
C35_OverCapacityCallNeverStarts ==
    /\ [](\A i \in Calls : OverCapacity(i) =>
            /\ calls[i].op_runs = 0
            /\ calls[i].pc # "in_flight"
            /\ calls[i].pc = "done" =>
                    \/ calls[i].result = "max_retries" /\ calls[i].attempt = max_retries
                    \/ calls[i].result = "type_error")
    /\ [][\A i \in Calls :
            (OverCapacity(i) /\ calls'[i].attempt = calls[i].attempt + 1) =>
                LET outcome == CheckProactiveLimits(rate_limit_info,
                                                    calls[i].estimated_tokens)
                IN  /\ outcome = "ok" =>
                            /\ calls'[i].pc = "backoff_sleep"
                            /\ calls'[i].can_proceed /\ ~calls'[i].tokens_allowed
                            /\ token_bucket'.tokens = Available(token_bucket, now)
                            /\ request_bucket'.tokens = RequestsAfterAttempt
                    /\ outcome = "blocked" =>
                            /\ calls'[i].pc = "backoff_sleep"
                            /\ ~calls'[i].can_proceed
                            /\ UNCHANGED <<request_bucket, token_bucket>>
                    /\ outcome = "type_error" =>
                            /\ calls'[i].pc = "done" /\ calls'[i].result = "type_error"
                            /\ UNCHANGED <<request_bucket, token_bucket>>]_vars

\* An over-capacity call alone at time 0 has ended with "max retries exceeded":
\* its first two attempts emptied the request bucket, the third was refused by
\* both buckets, and the token bucket is still full.
C35_Witness ==
    \E i \in Calls :
        /\ OverCapacity(i)
        /\ calls[i].pc = "done" /\ calls[i].result = "max_retries"
        /\ calls[i].attempt = max_retries
        /\ calls[i].op_runs = 0
        /\ calls[i].can_proceed /\ ~calls[i].request_allowed /\ ~calls[i].tokens_allowed
        /\ metrics.total_requests = max_retries
        /\ request_bucket.tokens = 0
        /\ token_bucket.tokens = token_bucket.capacity

\* ---------------------------------------------------------------- C36
\* A header that carries an integer above 0.
CarriesLimit(v) == v.present /\ ParseInt(v.text).ok /\ ParseInt(v.text).value > 0
\* A header that is absent, or carries an integer of 0 or below.
CarriesNoLimit(v) ==
    ~v.present \/ (ParseInt(v.text).ok /\ ParseInt(v.text).value <= 0)

\* C36: after update_rate_limits_from_headers, a dimension whose limit header
\* is absent or 0 has the entry it had before, and a dimension whose limit is
\* above 0 has the entry made from its own headers, whatever the other
\* dimension's limit was.
C36_EntryOverwrittenOnlyByPositiveLimit ==
    LET h == last_update.headers IN
    (/\ last_update.called /\ ~last_update.raised
     /\ HeaderInt(h.limit_requests).ok /\ HeaderInt(h.remaining_requests).ok
     /\ HeaderInt(h.limit_tokens).ok /\ HeaderInt(h.remaining_tokens).ok)
        => /\ CarriesNoLimit(h.limit_requests) =>
                    limit_info.rpm = last_update.before.rpm
           /\ CarriesNoLimit(h.limit_tokens) =>
                    limit_info.tpm = last_update.before.tpm
           /\ CarriesLimit(h.limit_requests) =>
                    limit_info.rpm =
                        RateLimitInfoAt(ParseInt(h.limit_requests.text).value,
                                        ParseInt(h.remaining_requests.text).value,
                                        last_update.at,
                                        parse_duration(ResetText(h.reset_requests)))
           /\ CarriesLimit(h.limit_tokens) =>
                    limit_info.tpm =
                        RateLimitInfoAt(ParseInt(h.limit_tokens.text).value,
                                        ParseInt(h.remaining_tokens.text).value,
                                        last_update.at,
                                        parse_duration(ResetText(h.reset_tokens)))

\* An exhausted requests entry was stored; then headers with a requests limit
\* of 0 and a tokens limit of 40000 arrived: the requests entry is the same
\* exhausted one, the tokens entry is new, and the next check is blocked.
C36_Witness ==
    /\ last_update.called /\ ~last_update.raised
    /\ last_update.before.rpm.tracked /\ last_update.before.rpm.remaining = 0
    /\ ~last_update.before.tpm.tracked
    /\ last_update.headers.limit_requests = Text(<<"0">>)
    /\ last_update.headers.remaining_requests = Text(<<"5">>)
    /\ limit_info.rpm = last_update.before.rpm
    /\ limit_info.tpm.tracked /\ limit_info.tpm.limit = 40000
    /\ last_check.called /\ last_check.outcome = "blocked"

\* ---------------------------------------------------------------- C37
\* The sole task is inside wait_for_tokens.
InWaitForTokens == tasks[SoleTask].op = "wait" /\ tasks[SoleTask].pc # "idle"

\* The clock is followed long enough for the call's timeout to pass.
TimeoutWithinClock ==
    tasks[SoleTask].start_time + tasks[SoleTask].timeout.ticks <= MaxBucketTime

\* The clock is followed long enough for the bucket to hold what is asked.
RefillWithinClock == Available(bucket, MaxBucketTime) >= tasks[SoleTask].n * Scale

\* C37: wait_for_tokens called with a timeout (0 included) returns; called
\* with no timeout for no more than the capacity it returns True; the clock
\* advancing and no other task using the bucket.
C37_WaitForTokensTerminates ==
    /\ (InWaitForTokens /\ tasks[SoleTask].timeout.given /\ TimeoutWithinClock)
            ~> (tasks[SoleTask].pc = "idle")
    /\ (InWaitForTokens /\ ~tasks[SoleTask].timeout.given
            /\ tasks[SoleTask].n * Scale <= bucket.capacity /\ RefillWithinClock)
            ~> (tasks[SoleTask].pc = "idle" /\ tasks[SoleTask].result = "true")

\* ---------------------------------------------------------------- C38
\* C38: every request given to add_request is eventually placed in a batch
\* and its future resolved, whatever is added afterwards.
C38_EveryRequestResolved ==
    \A r \in BatchRequests :
        (requests[r].state = "pending") ~> (requests[r].state = "resolved")

\* ---------------------------------------------------------------- C39
\* The requests of all batches in the order the batches were formed.
RECURSIVE Flatten(_)
Flatten(seqs) == IF seqs = <<>> THEN <<>> ELSE Head(seqs) \o Flatten(Tail(seqs))

RECURSIVE TotalTokens(_)
TotalTokens(batch) ==
    IF batch = <<>> THEN 0 ELSE requests[Head(batch)].tokens + TotalTokens(Tail(batch))

\* The requests added so far, in the order they were added.
Added == Flatten(batches) \o pending_requests

\* Batches take the pending requests in the order they were added, and no
\* request is in two batches or twice in one.
BatchesInOrder ==
    /\ \A k \in 1..Len(Added) : Added[k] = k
    /\ \A r \in BatchRequests : requests[r].state # "none" <=> r <= Len(Added)

\* C39: every batch takes pending requests in FIFO order, holds each request
\* at most once across all batches, has at most max_batch_size requests and a
\* token total of at most max_tokens_per_batch.
C39_BatchesWithinLimits ==
    /\ BatchesInOrder
    /\ \A b \in 1..Len(batches) :
            /\ Len(batches[b]) <= max_batch_size
            /\ TotalTokens(batches[b]) <= max_tokens_per_batch

====
